---- MODULE Spec2Model ----
(***************************************************************************)
(* Model of multilspy's LanguageServer (src/multilspy/language_server.py): *)
(* the open-file buffer table with its reference counts, the in-memory     *)
(* edits, the document-symbol cache and the notifications and requests     *)
(* written to the language server, driven by cooperative callers.          *)
(***************************************************************************)
EXTENDS Integers, Sequences, FiniteSets, TLC

VARIABLES
    server_started,          \* LanguageServer.server_started
    open_file_buffers,       \* LanguageServer.open_file_buffers: uri -> LSPFileBuffer
    document_symbols_cache,  \* LanguageServer._document_symbols_cache: path -> (hash, result)
    wire,                    \* what self.server.notify / self.server.send wrote, in order
    scopes,                  \* per caller: the open_file scopes it is inside, innermost last
    pc,                      \* per caller: idle, or the request it is suspended in
    ret,                     \* the call that ended last: which, how, and its value
    loop,                    \* SyncLanguageServer.loop: "None", or "running"
    was_stopped,             \* history: start_server was left at least once
    cache_has_changed,       \* LanguageServer._cache_has_changed
    cache_file,              \* the file at LanguageServer._cache_path
    loop_thread,             \* SyncLanguageServer.loop_thread: "None", or "set"
    threads_alive,           \* the scheduler threads started and not ended
    in_server_scope,         \* the owner is inside `with SyncLanguageServer.start_server()`
    ran_on_caller,           \* history: the callers whose own thread ran buffer table code
    wire_room                \* how many messages the log `wire` of this run has room for

vars == <<server_started, open_file_buffers, document_symbols_cache, wire, scopes, pc, ret,
          loop, was_stopped, cache_has_changed, cache_file,
          loop_thread, threads_alive, in_server_scope, ran_on_caller, wire_room>>

\* the state of the session's life cycle and of its cache file
lifecycle == <<loop, was_stopped, cache_has_changed, cache_file,
               loop_thread, threads_alive, in_server_scope>>

\* what the operations on buffers and requests leave alone
facade == <<lifecycle, ran_on_caller, wire_room>>

----------------------------------------------------------------------------
(* Bounds of the model *)

MaxLen == 3        \* longest buffer contents, in characters
MaxWire == 3       \* longest log of messages written to the server
MaxWireReopen == 5 \* longest log when a document is closed and opened again
MaxWireReferencing == 7 \* longest log when the references of a symbol are walked
MaxDepth == 1      \* deepest nesting of scopes of one caller
MaxRefs == 2       \* largest ref_count a buffer is driven to
MaxSaves == 2      \* most writes of the cache file
MaxRequests == 32  \* most textDocument/completion requests written
MaxThreads == 2    \* most scheduler threads alive at once

\* line 543: `num_retries < 30`
MaxRetries == 30

Callers == {"t1", "t2"}
Paths == {"a.py", "b.py"}
NL == "\n"
InsertTexts == {<<"x">>, <<NL>>}

\* the file "class C:\n  def m(self):\n    x = 1\n"
ExampleFile ==
    <<"c", "l", "a", "s", "s", " ", "C", ":", NL,
      " ", " ", "d", "e", "f", " ", "m", "(", "s", "e", "l", "f", ")", ":", NL,
      " ", " ", " ", " ", "x", " ", "=", " ", "1", NL>>

\* FileUtils.read_file: the files as they are on disk
DiskContents(path) ==
    IF path = "a.py" THEN <<"a", NL>>
    ELSE IF path = "c.py" THEN ExampleFile
    ELSE <<"b">>

----------------------------------------------------------------------------
(* Text helpers *)

Min(a, b) == IF a < b THEN a ELSE b
Max(a, b) == IF a > b THEN a ELSE b

\* Python's s[i:j] on a string, 0-based, clamped to the string
Slice(s, i, j) ==
    LET lo == Min(Max(i, 0), Len(s))
        hi == Min(Max(j, 0), Len(s))
    IN  IF hi <= lo THEN <<>> ELSE SubSeq(s, lo + 1, hi)

CharCode(ch) == IF ch = "a" THEN 1 ELSE IF ch = "b" THEN 2 ELSE IF ch = "x" THEN 3 ELSE 4

\* hashlib.md5(contents.encode('utf-8')).hexdigest(): a digest computed from
\* the characters, different for different texts of the model
RECURSIVE MD5From(_, _)
MD5From(s, i) ==
    IF i > Len(s) THEN 0 ELSE (CharCode(s[i]) + 5 * MD5From(s, i + 1)) % 1048576

MD5(s) == MD5From(s, 1)

\* offset of the first character of line `line`, walking the text from idx;
\* -1 when the text has fewer lines
RECURSIVE LineStart(_, _, _)
LineStart(text, line, idx) ==
    IF line = 0 THEN idx
    ELSE IF idx >= Len(text) THEN -1
    ELSE IF text[idx + 1] = NL THEN LineStart(text, line - 1, idx + 1)
    ELSE LineStart(text, line, idx + 1)

\* length of the line that starts at offset idx
RECURSIVE LineLength(_, _)
LineLength(text, idx) ==
    IF idx >= Len(text) \/ text[idx + 1] = NL THEN 0 ELSE 1 + LineLength(text, idx + 1)

\* a position that lies in the text
ValidPosition(text, line, col) ==
    /\ LineStart(text, line, 0) >= 0
    /\ col <= LineLength(text, LineStart(text, line, 0))

\* TextUtils.get_index_from_line_col
GetIndexFromLineCol(text, line, col) == LineStart(text, line, 0) + col

\* TextUtils.get_updated_position_from_line_and_column_and_edit
RECURSIVE GetUpdatedPosition(_, _, _)
GetUpdatedPosition(line, col, text) ==
    IF text = <<>> THEN <<line, col>>
    ELSE IF Head(text) = NL THEN GetUpdatedPosition(line + 1, 0, Tail(text))
    ELSE GetUpdatedPosition(line, col + 1, Tail(text))

----------------------------------------------------------------------------
(* Records *)

\* LSPFileBuffer(uri, contents, version, language_id, ref_count); __post_init__
\* sets content_hash from the contents given to the constructor
LSPFileBuffer(uri, contents, version, ref_count) ==
    [uri |-> uri, contents |-> contents, version |-> version,
     ref_count |-> ref_count, content_hash |-> MD5(contents)]

NoRange == <<>>
Msg(method, uri, version, range, text) ==
    [method |-> method, uri |-> uri, version |-> version, range |-> range, text |-> text]

DidOpen(uri, version, text) == Msg("textDocument/didOpen", uri, version, NoRange, text)
DidClose(uri) == Msg("textDocument/didClose", uri, -1, NoRange, <<>>)
\* DidChange with the whole document for a range
DidChangeWholeDocument(uri, version, range, text) ==
    Msg("textDocument/didChange", uri, version, NoRange, text)

DidChange(uri, version, range, text) == Msg("textDocument/didChange", uri, version, range, text)
Request(method, uri) == Msg(method, uri, -1, NoRange, <<>>)

Idle == [op |-> "idle", path |-> ""]
Awaiting(op, path) == [op |-> op, path |-> path]
Ret(op, kind, val) == [op |-> op, kind |-> kind, val |-> val]

\* the document symbols the server computes for a text
SymbolsOf(text) == [symbols_of |-> text]

\* the file at _cache_path: absent, empty, unreadable, or the pickle of a cache;
\* writes counts the pickle.dump calls made on it
CacheFile(kind, data, writes) == [kind |-> kind, data |-> data, writes |-> writes]

Put(f, k, v) == [x \in DOMAIN f \cup {k} |-> IF x = k THEN v ELSE f[x]]
Remove(f, k) == [x \in DOMAIN f \ {k} |-> f[x]]
Pop(s) == SubSeq(s, 1, Len(s) - 1)
Top(s) == s[Len(s)]

----------------------------------------------------------------------------
(* open_file: the code before and after the yield *)

\* OpenFileEnter giving a new buffer a ref_count of 2
OpenFileEnterCountsTwice(bufs, uri) ==
    IF uri \in DOMAIN bufs
    THEN [bufs EXCEPT ![uri].ref_count = @ + 1]
    ELSE Put(bufs, uri, LSPFileBuffer(uri, DiskContents(uri), 0, 2))

\* OpenFileEnter reading the file again for a buffer that is open
OpenFileEnterRereads(bufs, uri) ==
    IF uri \in DOMAIN bufs
    THEN [bufs EXCEPT ![uri].ref_count = @ + 1, ![uri].contents = DiskContents(uri)]
    ELSE Put(bufs, uri, LSPFileBuffer(uri, DiskContents(uri), 0, 1))

\* lines 224-247: the buffer table after entering a scope on uri
OpenFileEnter(bufs, uri) ==
    IF uri \in DOMAIN bufs
    THEN [bufs EXCEPT ![uri].ref_count = @ + 1]
    ELSE Put(bufs, uri, LSPFileBuffer(uri, DiskContents(uri), 0, 1))

\* OpenFileEnterMsgs with the `uri in self.open_file_buffers` test lost
OpenFileEnterMsgsAlways(bufs, uri) == <<DidOpen(uri, 0, DiskContents(uri))>>

\* lines 237-246: the notification written on entering
OpenFileEnterMsgs(bufs, uri) ==
    IF uri \in DOMAIN bufs THEN <<>> ELSE <<DidOpen(uri, 0, DiskContents(uri))>>

\* OpenFileExit without the removal at ref_count 0
OpenFileExitKeepsEntry(bufs, uri) == [bufs EXCEPT ![uri].ref_count = @ - 1]

\* lines 230/248 and 250-258: the buffer table after the scope's body returns
OpenFileExit(bufs, uri) ==
    LET dec == [bufs EXCEPT ![uri].ref_count = @ - 1]
    IN  IF dec[uri].ref_count = 0 THEN Remove(dec, uri) ELSE dec

\* OpenFileExitMsgs without the didClose
OpenFileExitMsgsNever(bufs, uri) == <<>>

\* lines 250-257: the notification written when the body returns
OpenFileExitMsgs(bufs, uri) ==
    IF bufs[uri].ref_count - 1 = 0 THEN <<DidClose(uri)>> ELSE <<>>

\* the body raised: a @contextmanager generator without try/finally receives
\* the exception at its yield, so nothing after the yield runs
OpenFileRaise(bufs, uri) == bufs

Fits(msgs) == Len(wire) + Len(msgs) <= wire_room
CanEnter(uri) == uri \in DOMAIN open_file_buffers => open_file_buffers[uri].ref_count < MaxRefs

----------------------------------------------------------------------------
\* the state after construction, but for the room of the log
AfterConstruction ==
    /\ server_started = FALSE
    /\ open_file_buffers = <<>>
    \* load_cache: no cache file, or the pickle an earlier session saved
    /\ document_symbols_cache \in
         { <<>>, [p \in {"a.py"} |-> <<MD5(<<"b">>), SymbolsOf(<<"b">>)>>] }
    /\ wire = <<>>
    /\ scopes = [c \in Callers |-> <<>>]
    /\ pc = [c \in Callers |-> Idle]
    /\ ret = Ret("none", "none", <<>>)
    /\ loop = "None"
    /\ was_stopped = FALSE
    /\ cache_has_changed = "bool"
    /\ cache_file = IF document_symbols_cache = <<>>
                    THEN CacheFile("absent", <<>>, 0)
                    ELSE CacheFile("pickle", document_symbols_cache, 0)
    /\ loop_thread = "None"
    /\ threads_alive = 0
    /\ in_server_scope = FALSE
    /\ ran_on_caller = {}

Init == AfterConstruction /\ wire_room = MaxWire

\* start_server, up to the yield
StartServerEnter ==
    /\ server_started' = TRUE
    /\ UNCHANGED <<open_file_buffers, document_symbols_cache, wire, scopes, pc, ret, facade>>

\* start_server, after the yield
StartServerExit ==
    /\ server_started
    /\ server_started' = FALSE
    /\ was_stopped' = TRUE
    /\ UNCHANGED <<open_file_buffers, document_symbols_cache, wire, scopes, pc, ret>>
    /\ UNCHANGED <<loop, cache_has_changed, cache_file>>
    /\ UNCHANGED <<loop_thread, threads_alive, in_server_scope, ran_on_caller, wire_room>>

\* `with open_file(path):` is entered, whatever the thread it is entered on
OpenFileOnBuffers(c, path) ==
    /\ pc[c] = Idle
    /\ Len(scopes[c]) < MaxDepth
    /\ IF ~server_started
       THEN /\ ret' = Ret("open_file", "NotStarted", <<>>)
            /\ UNCHANGED <<open_file_buffers, wire, scopes>>
       ELSE /\ Fits(OpenFileEnterMsgs(open_file_buffers, path))
            /\ CanEnter(path)
            /\ open_file_buffers' = OpenFileEnter(open_file_buffers, path)
            /\ wire' = wire \o OpenFileEnterMsgs(open_file_buffers, path)
            /\ scopes' = [scopes EXCEPT ![c] = Append(@, path)]
            /\ ret' = Ret("open_file", "ok", <<>>)
    /\ UNCHANGED <<server_started, document_symbols_cache, pc>>

\* `with open_file(path):` is entered
OpenFile(c, path) == OpenFileOnBuffers(c, path) /\ UNCHANGED facade

\* the body of the innermost scope of c returns, whatever the thread it runs on
CloseFileOnBuffers(c) ==
    /\ pc[c] = Idle
    /\ scopes[c] # <<>>
    /\ LET uri == Top(scopes[c]) IN
        /\ Fits(OpenFileExitMsgs(open_file_buffers, uri))
        /\ open_file_buffers' = OpenFileExit(open_file_buffers, uri)
        /\ wire' = wire \o OpenFileExitMsgs(open_file_buffers, uri)
    /\ scopes' = [scopes EXCEPT ![c] = Pop(@)]
    /\ ret' = Ret("open_file", "ok", <<>>)
    /\ UNCHANGED <<server_started, document_symbols_cache, pc>>

\* the body of the innermost scope of c returns
CloseFile(c) == CloseFileOnBuffers(c) /\ UNCHANGED facade

\* the body of the innermost scope of c raises
RaiseInFile(c) ==
    /\ pc[c] = Idle
    /\ scopes[c] # <<>>
    /\ open_file_buffers' = OpenFileRaise(open_file_buffers, Top(scopes[c]))
    /\ scopes' = [scopes EXCEPT ![c] = Pop(@)]
    /\ ret' = Ret("open_file", "raised", <<>>)
    /\ UNCHANGED <<server_started, document_symbols_cache, wire, pc, facade>>

\* InsertedContents with the index off by one
InsertedContentsOffByOne(contents, idx, text) ==
    Slice(contents, 0, idx + 1) \o text \o Slice(contents, idx + 1, Len(contents))

\* lines 288-290: contents[:change_index] + text + contents[change_index:]
InsertedContents(contents, idx, text) ==
    Slice(contents, 0, idx) \o text \o Slice(contents, idx, Len(contents))

\* DeletedText reaching one character further
DeletedTextOneMore(contents, from, to) == Slice(contents, from, to + 1)

\* line 337: contents[del_start_idx:del_end_idx]
DeletedText(contents, from, to) == Slice(contents, from, to)

\* line 338: contents[:del_start_idx] + contents[del_end_idx:]
RemainingContents(contents, from, to) ==
    Slice(contents, 0, from) \o Slice(contents, to, Len(contents))

\* NextVersion without the increment
NextVersionSame(version) == version

\* lines 286 and 334: file_buffer.version += 1
NextVersion(version) == version + 1

\* lines 285-290: the buffer after an insert
BufferAfterInsert(buf, line, col, text) ==
    [buf EXCEPT !.version = NextVersion(@),
                !.contents = InsertedContents(@, GetIndexFromLineCol(@, line, col), text)]

\* lines 333-338: the buffer after a delete
BufferAfterDelete(buf, sl, sc, el, ec) ==
    [buf EXCEPT !.version = NextVersion(@),
                !.contents = RemainingContents(@, GetIndexFromLineCol(@, sl, sc),
                                                  GetIndexFromLineCol(@, el, ec))]

\* insert_text_at_position, whatever the thread it is called on
InsertTextOnBuffers(c, path, line, col, text) ==
    /\ pc[c] = Idle
    /\ IF ~server_started
       THEN /\ ret' = Ret("insert_text_at_position", "NotStarted", <<>>)
            /\ UNCHANGED <<open_file_buffers, wire>>
       ELSE IF path \notin DOMAIN open_file_buffers
       THEN /\ ret' = Ret("insert_text_at_position", "AssertionError", <<>>)
            /\ UNCHANGED <<open_file_buffers, wire>>
       ELSE LET buf == open_file_buffers[path]
                new == BufferAfterInsert(buf, line, col, text)
            IN  /\ ValidPosition(buf.contents, line, col)
                /\ Len(buf.contents) + Len(text) <= MaxLen
                /\ Len(wire) < wire_room
                /\ open_file_buffers' = [open_file_buffers EXCEPT ![path] = new]
                /\ wire' = Append(wire, DidChange(buf.uri, new.version, <<line, col, line, col>>, text))
                /\ ret' = Ret("insert_text_at_position", "ok", GetUpdatedPosition(line, col, text))
    /\ UNCHANGED <<server_started, document_symbols_cache, scopes, pc>>

\* insert_text_at_position
InsertTextAtPosition(c, path, line, col, text) ==
    InsertTextOnBuffers(c, path, line, col, text) /\ UNCHANGED facade

\* delete_text_between_positions
DeleteTextBetweenPositions(c, path, sl, sc, el, ec) ==
    /\ pc[c] = Idle
    /\ IF ~server_started
       THEN /\ ret' = Ret("delete_text_between_positions", "NotStarted", <<>>)
            /\ UNCHANGED <<open_file_buffers, wire>>
       ELSE IF path \notin DOMAIN open_file_buffers
       THEN /\ ret' = Ret("delete_text_between_positions", "AssertionError", <<>>)
            /\ UNCHANGED <<open_file_buffers, wire>>
       ELSE LET buf == open_file_buffers[path]
                new == BufferAfterDelete(buf, sl, sc, el, ec)
            IN  /\ ValidPosition(buf.contents, sl, sc)
                /\ ValidPosition(buf.contents, el, ec)
                /\ GetIndexFromLineCol(buf.contents, sl, sc) <= GetIndexFromLineCol(buf.contents, el, ec)
                /\ Len(wire) < wire_room
                /\ open_file_buffers' = [open_file_buffers EXCEPT ![path] = new]
                /\ wire' = Append(wire, DidChange(buf.uri, new.version, <<sl, sc, el, ec>>, <<>>))
                /\ ret' = Ret("delete_text_between_positions", "ok",
                              DeletedText(buf.contents, GetIndexFromLineCol(buf.contents, sl, sc),
                                                        GetIndexFromLineCol(buf.contents, el, ec)))
    /\ UNCHANGED <<server_started, document_symbols_cache, scopes, pc, facade>>

\* get_open_file_text without its assert, the lookup failing instead
GetOpenFileTextNoAssert(c, path) ==
    /\ pc[c] = Idle
    /\ IF ~server_started
       THEN ret' = Ret("get_open_file_text", "NotStarted", <<>>)
       ELSE IF path \notin DOMAIN open_file_buffers
       THEN ret' = Ret("get_open_file_text", "KeyError", <<>>)
       ELSE ret' = Ret("get_open_file_text", "ok", open_file_buffers[path].contents)
    /\ UNCHANGED <<server_started, open_file_buffers, document_symbols_cache, wire, scopes, pc, facade>>

\* get_open_file_text
GetOpenFileText(c, path) ==
    /\ pc[c] = Idle
    /\ IF ~server_started
       THEN ret' = Ret("get_open_file_text", "NotStarted", <<>>)
       ELSE IF path \notin DOMAIN open_file_buffers
       THEN ret' = Ret("get_open_file_text", "AssertionError", <<>>)
       ELSE ret' = Ret("get_open_file_text", "ok", open_file_buffers[path].contents)
    /\ UNCHANGED <<server_started, open_file_buffers, document_symbols_cache, wire, scopes, pc, facade>>

\* what the server can answer to a request
Responses == {"result", "error"}

\* request_definition up to its await (lines 386-407)
RequestDefinition(c, path) ==
    /\ pc[c] = Idle
    /\ Len(scopes[c]) < MaxDepth
    /\ IF ~server_started
       THEN /\ ret' = Ret("request_definition", "NotStarted", <<>>)
            /\ UNCHANGED <<open_file_buffers, wire, scopes, pc>>
       ELSE LET msgs == OpenFileEnterMsgs(open_file_buffers, path)
                          \o <<Request("textDocument/definition", path)>>
            IN  /\ Fits(msgs)
                /\ CanEnter(path)
                /\ open_file_buffers' = OpenFileEnter(open_file_buffers, path)
                /\ wire' = wire \o msgs
                /\ scopes' = [scopes EXCEPT ![c] = Append(@, path)]
                /\ pc' = [pc EXCEPT ![c] = Awaiting("request_definition", path)]
                /\ UNCHANGED ret
    /\ UNCHANGED <<server_started, document_symbols_cache, facade>>

\* the await of request_definition ends: the response arrives, or the send raises
DefinitionResponse(c, resp) ==
    /\ pc[c].op = "request_definition"
    /\ LET uri == pc[c].path IN
        IF resp = "result"
        THEN /\ Fits(OpenFileExitMsgs(open_file_buffers, uri))
             /\ open_file_buffers' = OpenFileExit(open_file_buffers, uri)
             /\ wire' = wire \o OpenFileExitMsgs(open_file_buffers, uri)
             /\ ret' = Ret("request_definition", "ok", <<>>)
        ELSE /\ open_file_buffers' = OpenFileRaise(open_file_buffers, uri)
             /\ ret' = Ret("request_definition", "RpcError", <<>>)
             /\ UNCHANGED wire
    /\ scopes' = [scopes EXCEPT ![c] = Pop(@)]
    /\ pc' = [pc EXCEPT ![c] = Idle]
    /\ UNCHANGED <<server_started, document_symbols_cache, facade>>

\* CacheHit without the comparison of the hashes
CacheHitAnyHash(cache, path, buf) == path \in DOMAIN cache

\* lines 623-628: the cache holds an entry for the path with the buffer's hash
CacheHit(cache, path, buf) ==
    /\ path \in DOMAIN cache
    /\ cache[path][1] = buf.content_hash

\* request_document_symbols up to its return from the cache or its await (lines 621-639)
RequestDocumentSymbols(c, path) ==
    /\ pc[c] = Idle
    /\ Len(scopes[c]) < MaxDepth
    /\ IF ~server_started
       THEN /\ ret' = Ret("request_document_symbols", "NotStarted", <<>>)
            /\ UNCHANGED <<open_file_buffers, wire, scopes, pc>>
       ELSE LET entered == OpenFileEnter(open_file_buffers, path)
                opened == OpenFileEnterMsgs(open_file_buffers, path)
            IN  /\ CanEnter(path)
                /\ IF CacheHit(document_symbols_cache, path, entered[path])
                   THEN /\ Fits(opened \o OpenFileExitMsgs(entered, path))
                        /\ open_file_buffers' = OpenFileExit(entered, path)
                        /\ wire' = wire \o opened \o OpenFileExitMsgs(entered, path)
                        /\ ret' = Ret("request_document_symbols", "cached",
                                      <<document_symbols_cache[path][2]>>)
                        /\ UNCHANGED <<scopes, pc>>
                   ELSE /\ Fits(opened \o <<Request("textDocument/documentSymbol", path)>>)
                        /\ open_file_buffers' = entered
                        /\ wire' = wire \o opened \o <<Request("textDocument/documentSymbol", path)>>
                        /\ scopes' = [scopes EXCEPT ![c] = Append(@, path)]
                        /\ pc' = [pc EXCEPT ![c] = Awaiting("request_document_symbols", path)]
                        /\ UNCHANGED ret
    /\ UNCHANGED <<server_started, document_symbols_cache, facade>>

\* lines 666-668: the entry stored after a response: file_data.content_hash with the result
CacheEntry(file_data, result) == <<file_data.content_hash, result>>

\* the await of request_document_symbols ends (lines 633-670)
DocumentSymbolsResponse(c, resp) ==
    /\ pc[c].op = "request_document_symbols"
    /\ LET uri == pc[c].path
           file_data == open_file_buffers[uri]
           result == SymbolsOf(file_data.contents)
       IN
        IF resp = "result"
        THEN /\ Fits(OpenFileExitMsgs(open_file_buffers, uri))
             /\ open_file_buffers' = OpenFileExit(open_file_buffers, uri)
             /\ wire' = wire \o OpenFileExitMsgs(open_file_buffers, uri)
             /\ document_symbols_cache' = Put(document_symbols_cache, uri, CacheEntry(file_data, result))
             /\ cache_has_changed' = "True"
             /\ ret' = Ret("request_document_symbols", "ok", <<result>>)
        ELSE /\ open_file_buffers' = OpenFileRaise(open_file_buffers, uri)
             /\ ret' = Ret("request_document_symbols", "RpcError", <<>>)
             /\ UNCHANGED <<wire, document_symbols_cache, cache_has_changed>>
    /\ scopes' = [scopes EXCEPT ![c] = Pop(@)]
    /\ pc' = [pc EXCEPT ![c] = Idle]
    /\ UNCHANGED <<server_started, loop, was_stopped, cache_file>>
    /\ UNCHANGED <<loop_thread, threads_alive, in_server_scope, ran_on_caller, wire_room>>

----------------------------------------------------------------------------
(* request_containing_symbol *)

\* `column: Optional[int] = None`: no column is given
NoColumn == -1

\* a symbol of the flat list request_document_symbols returns, with the range
\* of its location (lines 880-895 give every symbol a location with a range)
Symbol(name, kind, sl, sc, el, ec) ==
    [name |-> name, kind |-> kind,
     range |-> [start |-> [line |-> sl, character |-> sc],
                end |-> [line |-> el, character |-> ec]]]

\* symbols a server reports: the class, the method and the variable of the
\* file c.py, a second variable on the variable's line, an import on one
\* line reported as a class, and the module
SymC == Symbol("C", "Class", 0, 0, 2, 9)
SymM == Symbol("m", "Method", 1, 2, 2, 9)
SymX == Symbol("x", "Variable", 2, 4, 2, 5)
SymY == Symbol("y", "Variable", 2, 7, 2, 8)
SymImp == Symbol("imp", "Class", 0, 0, 0, 9)
SymMod == Symbol("mod", "Module", 0, 0, 3, 0)
SymA == Symbol("a", "Variable", 0, 0, 0, 1)

\* the flat lists the server's answer to textDocument/documentSymbol becomes,
\* parents before their children: for c.py
ServerSymbolLists ==
    { <<SymC, SymM>>, <<SymC, SymM, SymX>>, <<SymX, SymY>>, <<SymY, SymX>>,
      <<SymImp, SymX>>, <<SymMod, SymImp>>, <<SymMod, SymC>> }

\* and for a.py, the expression statement `a`
ServerSymbolsFor(path) == IF path = "a.py" THEN { <<SymA>> } ELSE ServerSymbolLists

\* what comes with a response: a list of symbols with a result, nothing with an error
AnswersWith(resp, path) == IF resp = "result" THEN ServerSymbolsFor(path) ELSE { << >> }

\* the lines and columns asked about: no column, or one of three
QueryLines == 0..3
QueryColumns == {NoColumn, 0, 6, 8}

\* str.strip() == "": only whitespace, or nothing
Whitespace == {" ", "\t", "\r"}
IsBlank(l) == \A i \in 1..Len(l) : l[i] \in Whitespace

\* content.split("\n")[line] raises no IndexError
HasLine(text, line) == LineStart(text, line, 0) >= 0

\* content.split("\n")[line]
LineOf(text, line) ==
    LET idx == LineStart(text, line, 0)
    IN  SubSeq(text, idx + 1, idx + LineLength(text, idx))

\* lines 897-902
container_symbol_kinds == {"Method", "Function", "Class"}

\* is_position_in_range with `>=` where strict calls for `>`
IsPositionInRangeNeverStrict(line, column, strict, range_d) ==
    /\ range_d.end.line >= line /\ line >= range_d.start.line
    /\ column # NoColumn => column >= range_d.start.character

\* is_position_in_range (lines 904-917)
IsPositionInRange(line, column, strict, range_d) ==
    LET start == range_d.start
        end == range_d.end
        line_condition ==
            IF strict THEN end.line >= line /\ line > start.line
                      ELSE end.line >= line /\ line >= start.line
        column_condition ==
            IF column = NoColumn THEN TRUE
            ELSE IF strict THEN column > start.character
                           ELSE column >= start.character
    IN  line_condition /\ column_condition

\* candidate_containers without the test for one-liners
CandidateContainersWithOneLiners(symbols) ==
    SelectSeq(symbols, LAMBDA s : s.kind \in container_symbol_kinds)
        \o SelectSeq(symbols, LAMBDA s : s.kind = "Variable")

\* candidate_containers (lines 919-926): the containers that are not
\* one-liners, then the variables
CandidateContainers(symbols) ==
    SelectSeq(symbols, LAMBDA s : /\ s.kind \in container_symbol_kinds
                                  /\ s.range.start.line # s.range.end.line)
        \o SelectSeq(symbols, LAMBDA s : s.kind = "Variable")

\* containing_symbols (lines 931-937)
ContainingSymbols(symbols, line, column, strict) ==
    SelectSeq(CandidateContainers(symbols),
              LAMBDA s : IsPositionInRange(line, column, strict, s.range))

\* max(containing_symbols, key=start line) (line 941): the first of the
\* symbols whose start line is the greatest
RECURSIVE MaxByStartLine(_)
MaxByStartLine(ss) ==
    IF Len(ss) = 1 THEN ss[1]
    ELSE LET best == MaxByStartLine(SubSeq(ss, 1, Len(ss) - 1))
             last == ss[Len(ss)]
         IN  IF last.range.start.line > best.range.start.line THEN last ELSE best

\* lines 919-943: what request_containing_symbol returns for the symbols of
\* the file, <<>> standing for None
ContainingSymbolOf(symbols, line, column, strict) ==
    LET containing_symbols == ContainingSymbols(symbols, line, column, strict)
    IN  IF CandidateContainers(symbols) = <<>> THEN <<>>
        ELSE IF containing_symbols # <<>> THEN <<MaxByStartLine(containing_symbols)>>
        ELSE <<>>

\* the caller is suspended in request_containing_symbol, which the operation
\* `called` has called for it
AwaitingContainingFor(called, path, line, column, strict) ==
    [op |-> "request_containing_symbol", path |-> path,
     line |-> line, column |-> column, strict |-> strict, called |-> called]

AwaitingContaining(path, line, column, strict) ==
    AwaitingContainingFor("request_containing_symbol", path, line, column, strict)

\* request_containing_symbol up to its return or to the await of
\* request_document_symbols (lines 863-875 and 621-639), called by the caller
\* or by the operation `called` the caller has called
ContainingSymbolFor(c, called, path, line, column, strict) ==
    /\ pc[c] = Idle
    /\ Len(scopes[c]) < MaxDepth
    /\ IF ~server_started
       THEN /\ ret' = Ret(called, "NotStarted", <<>>)
            /\ UNCHANGED <<open_file_buffers, wire, scopes, pc>>
       ELSE LET entered == OpenFileEnter(open_file_buffers, path)
                opened == OpenFileEnterMsgs(open_file_buffers, path)
                content == DiskContents(path)
                left == OpenFileExit(entered, path)
                closed == opened \o OpenFileExitMsgs(entered, path)
                \* request_document_symbols enters open_file again
                reentered == OpenFileEnter(left, path)
                reopened == closed \o OpenFileEnterMsgs(left, path)
            IN  /\ CanEnter(path)
                /\ IF ~HasLine(content, line)
                   THEN \* IndexError inside the scope of open_file
                        /\ Fits(opened)
                        /\ open_file_buffers' = OpenFileRaise(entered, path)
                        /\ wire' = wire \o opened
                        /\ ret' = Ret(called, "IndexError", <<>>)
                        /\ UNCHANGED <<scopes, pc>>
                   ELSE IF IsBlank(LineOf(content, line))
                   THEN /\ Fits(closed)
                        /\ open_file_buffers' = left
                        /\ wire' = wire \o closed
                        /\ ret' = Ret(called, "ok", <<>>)
                        /\ UNCHANGED <<scopes, pc>>
                   ELSE IF CacheHit(document_symbols_cache, path, reentered[path])
                   THEN /\ Fits(reopened \o OpenFileExitMsgs(reentered, path))
                        /\ open_file_buffers' = OpenFileExit(reentered, path)
                        /\ wire' = wire \o reopened \o OpenFileExitMsgs(reentered, path)
                        /\ ret' = Ret(called, "ok",
                                      ContainingSymbolOf(document_symbols_cache[path][2],
                                                         line, column, strict))
                        /\ UNCHANGED <<scopes, pc>>
                   ELSE /\ Fits(reopened \o <<Request("textDocument/documentSymbol", path)>>)
                        /\ open_file_buffers' = reentered
                        /\ wire' = wire \o reopened
                                        \o <<Request("textDocument/documentSymbol", path)>>
                        /\ scopes' = [scopes EXCEPT ![c] = Append(@, path)]
                        /\ pc' = [pc EXCEPT ![c] =
                                     AwaitingContainingFor(called, path, line, column, strict)]
                        /\ UNCHANGED ret
    /\ UNCHANGED <<server_started, document_symbols_cache, facade>>

\* request_containing_symbol up to its return or its await
RequestContainingSymbol(c, path, line, column, strict) ==
    ContainingSymbolFor(c, "request_containing_symbol", path, line, column, strict)

\* the symbol as request_containing_symbol returns it, with the location
\* lines 880-895 give it
Located(s, path) ==
    [name |-> s.name, kind |-> s.kind, range |-> s.range,
     location |-> [relativePath |-> path, range |-> s.range]]

\* the symbols whose container is asked for
ContainerQueries == {Located(SymC, "c.py"), Located(SymM, "c.py"), Located(SymX, "c.py")}

\* request_container_of_symbol passing strict=False
RequestContainerOfSymbolNotStrict(c, symbol) ==
    ContainingSymbolFor(c, "request_container_of_symbol",
                        symbol.location.relativePath,
                        symbol.location.range.start.line,
                        symbol.location.range.start.character,
                        FALSE)

\* request_container_of_symbol (lines 945-955) up to its return or its await
RequestContainerOfSymbol(c, symbol) ==
    ContainingSymbolFor(c, "request_container_of_symbol",
                        symbol.location.relativePath,
                        symbol.location.range.start.line,
                        symbol.location.range.start.character,
                        TRUE)

\* the await of request_document_symbols in request_containing_symbol ends
\* (lines 633-670), and request_containing_symbol goes on to its return
\* (lines 877-943)
ContainingSymbolResponse(c, resp, symbols) ==
    /\ pc[c].op = "request_containing_symbol"
    /\ LET uri == pc[c].path
           file_data == open_file_buffers[uri]
       IN
        IF resp = "result"
        THEN /\ Fits(OpenFileExitMsgs(open_file_buffers, uri))
             /\ open_file_buffers' = OpenFileExit(open_file_buffers, uri)
             /\ wire' = wire \o OpenFileExitMsgs(open_file_buffers, uri)
             /\ document_symbols_cache' = Put(document_symbols_cache, uri, CacheEntry(file_data, symbols))
             /\ cache_has_changed' = "True"
             /\ ret' = Ret(pc[c].called, "ok",
                           ContainingSymbolOf(symbols, pc[c].line, pc[c].column, pc[c].strict))
        ELSE /\ open_file_buffers' = OpenFileRaise(open_file_buffers, uri)
             /\ ret' = Ret(pc[c].called, "RpcError", <<>>)
             /\ UNCHANGED <<wire, document_symbols_cache, cache_has_changed>>
    /\ scopes' = [scopes EXCEPT ![c] = Pop(@)]
    /\ pc' = [pc EXCEPT ![c] = Idle]
    /\ UNCHANGED <<server_started, loop, was_stopped, cache_file>>
    /\ UNCHANGED <<loop_thread, threads_alive, in_server_scope, ran_on_caller, wire_room>>


----------------------------------------------------------------------------
(* request_document_symbols: the server's response made a flat list *)

\* a DocumentSymbol with a `children` field
WithChildren(s, children) ==
    [f \in DOMAIN s \cup {"children"} |-> IF f = "children" THEN children ELSE s[f]]

\* a SymbolInformation: name, kind and a location of uri and range
SymbolInformation(s, uri) ==
    [name |-> s.name, kind |-> s.kind, location |-> [uri |-> uri, range |-> s.range]]

\* responses to textDocument/documentSymbol: a class whose method holds a
\* variable that has no `children` field; a class with a method and a variable
\* beside a module without children; a flat list of SymbolInformation; an
\* import alone with an empty `children`; nothing
TreeDeep == << WithChildren(SymC, << WithChildren(SymM, << SymX >>) >>) >>
TreeWide == << WithChildren(SymC, << WithChildren(SymM, << >>), SymY >>), SymMod >>
FlatList == << SymbolInformation(SymC, "a.py"), SymbolInformation(SymM, "a.py") >>
TreeLeaf == << WithChildren(SymImp, << >>) >>
DocumentSymbolResponses == { TreeDeep, TreeWide, FlatList, TreeLeaf, << >> }

\* line 652: UnifiedSymbolInformation(**tree) after `del tree['children']`
WithoutChildren(tree) == [f \in DOMAIN tree \ {"children"} |-> tree[f]]

\* visit_tree_nodes_and_build_tree_repr without the visit of the children's children
VisitOneLevel(tree) ==
    LET children == IF "children" \in DOMAIN tree THEN tree.children ELSE << >>
    IN  <<WithoutChildren(tree)>> \o [i \in 1..Len(children) |-> WithoutChildren(children[i])]

\* lines 647-655: visit_tree_nodes_and_build_tree_repr
RECURSIVE visit_tree_nodes_and_build_tree_repr(_)
RECURSIVE ExtendWithVisits(_, _)
ExtendWithVisits(l, children) ==
    IF children = << >> THEN l
    ELSE ExtendWithVisits(l \o visit_tree_nodes_and_build_tree_repr(Head(children)), Tail(children))

visit_tree_nodes_and_build_tree_repr(tree) ==
    LET children == IF "children" \in DOMAIN tree THEN tree.children ELSE << >>
    IN  ExtendWithVisits(<<WithoutChildren(tree)>>, children)

\* lines 641-664: the loop over the items of the response
RECURSIVE FlatSymbols(_)
FlatSymbols(response) ==
    IF response = << >> THEN << >>
    ELSE LET item == Head(response)
         IN  (IF "children" \in DOMAIN item
              THEN visit_tree_nodes_and_build_tree_repr(item)
              ELSE <<item>>) \o FlatSymbols(Tail(response))

\* what the server sends back: a list, null, or an error
DocumentSymbolAnswers == {"list", "None", "error"}

\* the await of request_document_symbols ends with the server's answer
\* (lines 633-670): an error raises inside open_file; anything else leaves
\* open_file first, a response that is no list fails the assert of line 643,
\* a list is made flat, stored with the buffer's hash and returned
DocumentSymbolsArrive(c, answer, response) ==
    /\ pc[c].op = "request_document_symbols"
    /\ LET uri == pc[c].path
           file_data == open_file_buffers[uri]
       IN
        IF answer = "error"
        THEN /\ open_file_buffers' = OpenFileRaise(open_file_buffers, uri)
             /\ ret' = Ret("request_document_symbols", "RpcError", <<>>)
             /\ UNCHANGED <<wire, document_symbols_cache, cache_has_changed>>
        ELSE /\ Fits(OpenFileExitMsgs(open_file_buffers, uri))
             /\ open_file_buffers' = OpenFileExit(open_file_buffers, uri)
             /\ wire' = wire \o OpenFileExitMsgs(open_file_buffers, uri)
             /\ IF answer = "None"
                THEN /\ ret' = Ret("request_document_symbols", "AssertionError", <<>>)
                     /\ UNCHANGED <<document_symbols_cache, cache_has_changed>>
                ELSE /\ document_symbols_cache' =
                            Put(document_symbols_cache, uri, CacheEntry(file_data, FlatSymbols(response)))
                     /\ cache_has_changed' = "True"
                     /\ ret' = Ret("request_document_symbols", "ok", <<FlatSymbols(response)>>)
    /\ scopes' = [scopes EXCEPT ![c] = Pop(@)]
    /\ pc' = [pc EXCEPT ![c] = Idle]
    /\ UNCHANGED <<server_started, loop, was_stopped, cache_file>>
    /\ UNCHANGED <<loop_thread, threads_alive, in_server_scope, ran_on_caller, wire_room>>

----------------------------------------------------------------------------
(* request_referencing_symbols *)

\* a DocumentSymbol's selectionRange, of which the start is read (line 799)
WithSelection(s, line, character) ==
    [f \in DOMAIN s \cup {"selectionRange"} |->
        IF f = "selectionRange"
        THEN [start |-> [line |-> line, character |-> character]]
        ELSE s[f]]

\* lines 880-889: the location request_containing_symbol gives a symbol
WithLocation(s, path) ==
    [f \in DOMAIN s \cup {"location"} |->
        IF f = "location" THEN [relativePath |-> path, range |-> s.range] ELSE s[f]]

\* the symbols of c.py with the positions of their names, and the variable x
\* as b.py imports it; every name is one character
SelC == WithSelection(SymC, 0, 6)
SelM == WithSelection(SymM, 1, 6)
SelX == WithSelection(SymX, 2, 4)
SelImportedX == WithSelection(Symbol("x", "Variable", 0, 0, 0, 1), 0, 0)

\* what an earlier session left in the cache for the two files
SymbolsOnDisk(path) == IF path = "c.py" THEN <<SelC, SelM, SelX>> ELSE <<SelImportedX>>
ReferencingPaths == {"c.py", "b.py"}

\* lines 504-514: a Location of the response with its relativePath
Reference(path, line, character) ==
    [relativePath |-> path,
     range |-> [start |-> [line |-> line, character |-> character],
                end |-> [line |-> line, character |-> character + 1]]]

\* the references a server reports: the definition of x, a use in the method
\* m, the import in b.py, the empty last line of c.py
ReferenceLists ==
    LET RefDef == Reference("c.py", 2, 4)
        RefUse == Reference("c.py", 1, 8)
        RefImport == Reference("b.py", 0, 0)
        RefBlank == Reference("c.py", 3, 0)
    IN  { << >>, <<RefDef>>, <<RefUse, RefDef>>, <<RefDef, RefUse>>,
          <<RefImport, RefDef>>, <<RefDef, RefImport>>, <<RefBlank, RefUse>> }

\* the positions asked about: the definition of x, and the use in m
ReferencingQueries == {<<"c.py", 2, 4>>, <<"c.py", 1, 8>>}

\* lines 781-782: the text of the line before its first "."; <<>> without one
RECURSIVE BeforeDot(_, _)
BeforeDot(l, i) ==
    IF i > Len(l) THEN << >>
    ELSE IF l[i] = "." THEN SubSeq(l, 1, i - 1)
    ELSE BeforeDot(l, i + 1)

HasDot(l) == \E i \in 1..Len(l) : l[i] = "."

\* lines 784-789: the first Variable of that name, given the reference for
\* its location and range; <<>> standing for None
RECURSIVE VariableNamed(_, _, _)
VariableNamed(symbols, containing_symbol_name, ref) ==
    IF symbols = << >> THEN << >>
    ELSE LET symbol == Head(symbols)
         IN  IF <<symbol.name>> = containing_symbol_name /\ symbol.kind = "Variable"
             THEN << [f \in DOMAIN symbol \cup {"location", "range"} |->
                        IF f = "location" THEN ref
                        ELSE IF f = "range" THEN ref.range
                        ELSE symbol[f]] >>
             ELSE VariableNamed(Tail(symbols), containing_symbol_name, ref)

\* the symbols request_document_symbols returns from the cache, each with the
\* location request_containing_symbol gives it (lines 877-895)
SymbolsWithLocation(path) ==
    LET symbols == document_symbols_cache[path][2]
    IN  [i \in 1..Len(symbols) |-> WithLocation(symbols[i], path)]

\* lines 765-790: the containing symbol of a reference: None for an empty
\* line on disk (863-875) or without a container, and then the variable the
\* text of the buffer's line names before a "."
ContainingSymbolOfReference(file_data, ref) ==
    LET ref_path == ref.relativePath
        ref_line == ref.range.start.line
        ref_col == ref.range.start.character
        containing_symbol ==
            IF IsBlank(LineOf(DiskContents(ref_path), ref_line)) THEN << >>
            ELSE ContainingSymbolOf(SymbolsWithLocation(ref_path), ref_line, ref_col, FALSE)
        ref_text == LineOf(file_data.contents, ref_line)
    IN  IF containing_symbol # << >> THEN containing_symbol
        ELSE IF HasDot(ref_text)
        THEN VariableNamed(SymbolsWithLocation(ref_path), BeforeDot(ref_text, 1), ref)
        ELSE << >>

\* lines 796-800: the check for the self-reference
IsSelfReference(containing_symbol, relative_file_path, ref_line, ref_col) ==
    /\ containing_symbol.location.relativePath = relative_file_path
    /\ containing_symbol.selectionRange.start.line = ref_line
    /\ containing_symbol.selectionRange.start.character = ref_col

\* lines 813-817: the check for an import; incoming_symbol is <<>> for None
IsImport(include_imports, incoming_symbol, containing_symbol) ==
    /\ ~include_imports
    /\ incoming_symbol # << >>
    /\ containing_symbol.name = incoming_symbol[1].name
    /\ containing_symbol.kind = incoming_symbol[1].kind

\* lines 756-826: the loop over the references, every one inside open_file on
\* its file; the open_file scopes of request_containing_symbol and
\* request_document_symbols inside it leave the table as they find it
RECURSIVE ReferencingLoop(_, _, _, _, _, _)
ReferencingLoop(q, references, result, incoming_symbol, bufs, msgs) ==
    IF references = << >>
    THEN [result |-> result, bufs |-> bufs, msgs |-> msgs]
    ELSE LET ref == Head(references)
             ref_path == ref.relativePath
             entered == OpenFileEnter(bufs, ref_path)
             inside == OpenFileExit(OpenFileEnter(entered, ref_path), ref_path)
             found == ContainingSymbolOfReference(entered[ref_path], ref)
             left == OpenFileExit(inside, ref_path)
             written == msgs \o OpenFileEnterMsgs(bufs, ref_path)
                             \o OpenFileExitMsgs(inside, ref_path)
         IN  IF found = << >>
             THEN ReferencingLoop(q, Tail(references), result, incoming_symbol, left, written)
             ELSE IF IsSelfReference(found[1], q.path, ref.range.start.line,
                                     ref.range.start.character)
             THEN ReferencingLoop(q, Tail(references),
                                  IF q.include_self THEN Append(result, found[1]) ELSE result,
                                  found, left, written)
             ELSE IF IsImport(q.include_imports, incoming_symbol, found[1])
             THEN ReferencingLoop(q, Tail(references), result, incoming_symbol, left, written)
             ELSE ReferencingLoop(q, Tail(references), Append(result, found[1]),
                                  incoming_symbol, left, written)

\* the caller is suspended in the request_references of request_referencing_symbols
AwaitingReferences(path, line, column, include_imports, include_self) ==
    [op |-> "request_referencing_symbols", path |-> path, line |-> line, column |-> column,
     include_imports |-> include_imports, include_self |-> include_self]

\* request_referencing_symbols up to the await of request_references
\* (lines 744-752, 482-499)
RequestReferencingSymbols(c, path, line, column, include_imports, include_self) ==
    /\ pc[c] = Idle
    /\ Len(scopes[c]) < MaxDepth
    /\ IF ~server_started
       THEN /\ ret' = Ret("request_referencing_symbols", "NotStarted", <<>>)
            /\ UNCHANGED <<open_file_buffers, wire, scopes, pc>>
       ELSE LET msgs == OpenFileEnterMsgs(open_file_buffers, path)
                            \o <<Request("textDocument/references", path)>>
            IN  /\ Fits(msgs)
                /\ CanEnter(path)
                /\ open_file_buffers' = OpenFileEnter(open_file_buffers, path)
                /\ wire' = wire \o msgs
                /\ scopes' = [scopes EXCEPT ![c] = Append(@, path)]
                /\ pc' = [pc EXCEPT ![c] =
                            AwaitingReferences(path, line, column, include_imports, include_self)]
                /\ UNCHANGED ret
    /\ UNCHANGED <<server_started, document_symbols_cache, facade>>

\* the await of request_references ends (lines 490-516) and the rest of
\* request_referencing_symbols runs (753-828): with the symbols of every
\* referenced file in the cache under the hash of its buffer, no await after
\* the first suspends, and the loop runs to its end
ReferencesResponse(c, resp, references) ==
    /\ pc[c].op = "request_referencing_symbols"
    /\ LET uri == pc[c].path
           out == ReferencingLoop(pc[c], references, << >>, << >>,
                                  OpenFileExit(open_file_buffers, uri),
                                  OpenFileExitMsgs(open_file_buffers, uri))
       IN
        IF resp = "result"
        THEN /\ \A i \in 1..Len(references) :
                  LET ref_path == references[i].relativePath
                  IN  CacheHit(document_symbols_cache, ref_path,
                               OpenFileEnter(open_file_buffers, ref_path)[ref_path])
             /\ Fits(out.msgs)
             /\ open_file_buffers' = out.bufs
             /\ wire' = wire \o out.msgs
             /\ ret' = Ret("request_referencing_symbols", "ok", out.result)
        ELSE /\ open_file_buffers' = OpenFileRaise(open_file_buffers, uri)
             /\ ret' = Ret("request_referencing_symbols", "RpcError", <<>>)
             /\ UNCHANGED wire
    /\ scopes' = [scopes EXCEPT ![c] = Pop(@)]
    /\ pc' = [pc EXCEPT ![c] = Idle]
    /\ UNCHANGED <<server_started, document_symbols_cache, facade>>
----------------------------------------------------------------------------
(* request_completions *)

\* what the server can answer to textDocument/completion: null, a bare list
\* of items, a CompletionList with isIncomplete false or true, or an error
CompletionResponses == {"None", "list", "complete", "incomplete", "error"}

\* lines 548-549 and response["isIncomplete"]: a bare list counts as complete
IsIncomplete(response) == response = "incomplete"

\* line 543: the condition of the while loop, with the response just received
\* and num_retries as line 550 left it
RetryCompletion(response, num_retries) ==
    response = "None" \/ (IsIncomplete(response) /\ num_retries < MaxRetries)

\* line 553: the call returns the empty list
ReturnsEmpty(response, allow_incomplete) ==
    response = "None" \/ (IsIncomplete(response) /\ ~allow_incomplete)

\* lines 556-610: the completions made of the items of the response
CompletionsOf(response) == <<"completions">>

\* the caller is suspended in `await self.server.send.completion(...)` (line 547)
AwaitingCompletion(path, allow_incomplete, num_retries) ==
    [op |-> "request_completions", path |-> path,
     allow_incomplete |-> allow_incomplete, num_retries |-> num_retries]

\* the number of messages of a method written
Written(method) == Cardinality({i \in DOMAIN wire : wire[i].method = method})

\* room for notifications beside the completion requests written
FitsBesideCompletions(msgs) ==
    (Len(wire) - Written("textDocument/completion")) + Len(msgs) <= wire_room

\* room for one more completion request
CanRequestCompletion == Written("textDocument/completion") < MaxRequests

\* request_completions up to its first await of the server (lines 531-547);
\* completions_available is taken to be set
RequestCompletions(c, path, allow_incomplete) ==
    /\ pc[c] = Idle
    /\ Len(scopes[c]) < MaxDepth
    /\ IF ~server_started
       THEN /\ ret' = Ret("request_completions", "NotStarted", <<>>)
            /\ UNCHANGED <<open_file_buffers, wire, scopes, pc>>
       ELSE /\ FitsBesideCompletions(OpenFileEnterMsgs(open_file_buffers, path))
            /\ CanRequestCompletion
            /\ CanEnter(path)
            /\ open_file_buffers' = OpenFileEnter(open_file_buffers, path)
            /\ wire' = wire \o OpenFileEnterMsgs(open_file_buffers, path)
                            \o <<Request("textDocument/completion", path)>>
            /\ scopes' = [scopes EXCEPT ![c] = Append(@, path)]
            /\ pc' = [pc EXCEPT ![c] = AwaitingCompletion(path, allow_incomplete, 0)]
            /\ UNCHANGED ret
    /\ UNCHANGED <<server_started, document_symbols_cache, facade>>

\* the await of request_completions ends (lines 547-610): the loop goes round
\* and sends again, or the call returns, or the send raised
CompletionResponse(c, response) ==
    /\ pc[c].op = "request_completions"
    /\ LET uri == pc[c].path
           num_retries == pc[c].num_retries + 1
       IN
        IF response = "error"
        THEN /\ open_file_buffers' = OpenFileRaise(open_file_buffers, uri)
             /\ ret' = Ret("request_completions", "RpcError", <<>>)
             /\ scopes' = [scopes EXCEPT ![c] = Pop(@)]
             /\ pc' = [pc EXCEPT ![c] = Idle]
             /\ UNCHANGED wire
        ELSE IF RetryCompletion(response, num_retries)
        THEN /\ CanRequestCompletion
             /\ wire' = Append(wire, Request("textDocument/completion", uri))
             /\ pc' = [pc EXCEPT ![c] = AwaitingCompletion(uri, pc[c].allow_incomplete, num_retries)]
             /\ UNCHANGED <<open_file_buffers, scopes, ret>>
        ELSE /\ FitsBesideCompletions(OpenFileExitMsgs(open_file_buffers, uri))
             /\ open_file_buffers' = OpenFileExit(open_file_buffers, uri)
             /\ wire' = wire \o OpenFileExitMsgs(open_file_buffers, uri)
             /\ ret' = Ret("request_completions", "ok",
                           IF ReturnsEmpty(response, pc[c].allow_incomplete)
                           THEN <<>> ELSE CompletionsOf(response))
             /\ scopes' = [scopes EXCEPT ![c] = Pop(@)]
             /\ pc' = [pc EXCEPT ![c] = Idle]
    /\ UNCHANGED <<server_started, document_symbols_cache, facade>>

----------------------------------------------------------------------------
(* Construction, the symbol cache file, and SyncLanguageServer.start / stop *)

\* `if self._cache_has_changed:` (line 1004): the class bool, which line 184
\* assigns, is as true as True
Truthy(flag) == flag \in {"bool", "True"}

\* __init__ got to its last line (184), which sets _cache_has_changed
Constructed == cache_has_changed # "unset"

\* load_cache (lines 1010-1015): nothing to do for an absent file; otherwise
\* open the file and pickle.load it, with nothing catching what they raise
LoadCache(file) ==
    IF file.kind = "absent" THEN [raised |-> "none", cache |-> <<>>]
    ELSE IF file.kind = "pickle" THEN [raised |-> "none", cache |-> file.data]
    ELSE IF file.kind = "empty" THEN [raised |-> "EOFError", cache |-> <<>>]
    ELSE [raised |-> "PermissionError", cache |-> <<>>]

\* save_cache (lines 1003-1008)
SaveCache(flag, cache, file) ==
    IF Truthy(flag) THEN CacheFile("pickle", cache, file.writes + 1) ELSE file

\* LanguageServer.__init__ from its call of load_cache on (lines 183-184)
Construct ==
    /\ ~Constructed
    /\ ret.op = "none"
    /\ LET r == LoadCache(cache_file) IN
        IF r.raised = "none"
        THEN /\ document_symbols_cache' = r.cache
             /\ cache_has_changed' = "bool"
             /\ ret' = Ret("__init__", "ok", <<>>)
        ELSE /\ ret' = Ret("__init__", r.raised, <<>>)
             /\ UNCHANGED <<document_symbols_cache, cache_has_changed>>
    /\ UNCHANGED <<server_started, open_file_buffers, wire, scopes, pc, loop, was_stopped, cache_file>>
    /\ UNCHANGED <<loop_thread, threads_alive, in_server_scope, ran_on_caller, wire_room>>

\* The owner of the SyncLanguageServer uses start() and stop(), or the scope
\* of start_server(), one after the other and never one inside the other.

\* SyncLanguageServer.start (lines 1299-1310)
Start ==
    /\ Constructed
    /\ ~in_server_scope
    /\ threads_alive < MaxThreads
    /\ loop' = "running"
    /\ loop_thread' = "set"
    /\ threads_alive' = threads_alive + 1
    /\ server_started' = TRUE
    /\ ret' = Ret("start", "ok", <<>>)
    /\ UNCHANGED <<open_file_buffers, document_symbols_cache, wire, scopes, pc>>
    /\ UNCHANGED <<was_stopped, cache_has_changed, cache_file, in_server_scope, ran_on_caller, wire_room>>

\* SyncLanguageServer.stop (lines 1312-1325)
Stop ==
    /\ Constructed
    /\ ~in_server_scope
    /\ IF loop = "None" \/ loop_thread = "None"
       THEN /\ ret' = Ret("stop", "NotStarted", <<>>)
            /\ UNCHANGED <<server_started, loop, was_stopped, cache_file, loop_thread, threads_alive>>
       ELSE /\ cache_file.writes < MaxSaves
            /\ server_started' = FALSE
            /\ was_stopped' = TRUE
            /\ threads_alive' = threads_alive - 1
            /\ loop' = "None"
            /\ loop_thread' = "None"
            /\ cache_file' = SaveCache(cache_has_changed, document_symbols_cache, cache_file)
            /\ ret' = Ret("stop", "ok", <<>>)
    /\ UNCHANGED <<open_file_buffers, document_symbols_cache, wire, scopes, pc, cache_has_changed>>
    /\ UNCHANGED <<in_server_scope, ran_on_caller, wire_room>>

\* SyncLanguageServer.start_server up to its yield (lines 1099-1104): its
\* thread is kept in a local variable, not in self.loop_thread
SyncStartServerEnter ==
    /\ Constructed
    /\ ~in_server_scope
    /\ loop_thread = "None"
    /\ threads_alive < MaxThreads
    /\ in_server_scope' = TRUE
    /\ loop' = "running"
    /\ threads_alive' = threads_alive + 1
    /\ server_started' = TRUE
    /\ ret' = Ret("start_server", "ok", <<>>)
    /\ UNCHANGED <<open_file_buffers, document_symbols_cache, wire, scopes, pc>>
    /\ UNCHANGED <<was_stopped, cache_has_changed, cache_file, loop_thread, ran_on_caller, wire_room>>

\* SyncLanguageServer.start_server after its yield (lines 1105-1107), the
\* body of the scope having returned: self.loop keeps the loop it stopped
SyncStartServerExit ==
    /\ in_server_scope
    /\ in_server_scope' = FALSE
    /\ server_started' = FALSE
    /\ was_stopped' = TRUE
    /\ loop' = "stopped"
    /\ threads_alive' = threads_alive - 1
    /\ ret' = Ret("start_server", "ok", <<>>)
    /\ UNCHANGED <<open_file_buffers, document_symbols_cache, wire, scopes, pc>>
    /\ UNCHANGED <<cache_has_changed, cache_file, loop_thread, ran_on_caller, wire_room>>

\* the body of the scope of SyncLanguageServer.start_server raises: the
\* generator has no try/finally, so nothing after its yield runs
SyncStartServerRaise ==
    /\ in_server_scope
    /\ in_server_scope' = FALSE
    /\ ret' = Ret("start_server", "raised", <<>>)
    /\ UNCHANGED <<server_started, open_file_buffers, document_symbols_cache, wire, scopes, pc>>
    /\ UNCHANGED <<loop, was_stopped, cache_has_changed, cache_file, loop_thread,
                   threads_alive, ran_on_caller, wire_room>>

\* the caller is blocked in the result() of a future nothing will ever set
Blocked(op, path) == [op |-> "blocked", path |-> path]

\* SyncLanguageServer.request_document_symbols:
\* asyncio.run_coroutine_threadsafe(coroutine, self.loop) calls
\* self.loop.call_soon_threadsafe, which None does not have, and which on a
\* stopped loop queues a callback that never runs
SyncRequestDocumentSymbols(c, path) ==
    /\ Constructed
    /\ IF loop = "None"
       THEN /\ pc[c] = Idle
            /\ ret' = Ret("request_document_symbols", "AttributeError", <<>>)
            /\ UNCHANGED <<server_started, open_file_buffers, document_symbols_cache, wire,
                           scopes, pc, facade>>
       ELSE IF loop = "stopped"
       THEN /\ pc[c] = Idle
            /\ pc' = [pc EXCEPT ![c] = Blocked("request_document_symbols", path)]
            /\ UNCHANGED <<server_started, open_file_buffers, document_symbols_cache, wire,
                           scopes, ret, facade>>
       ELSE RequestDocumentSymbols(c, path)

\* the caller's own thread ran code that reads or changes the buffer table
OnCallerThread(c) ==
    /\ ran_on_caller' = IF server_started THEN ran_on_caller \cup {c} ELSE ran_on_caller
    /\ UNCHANGED <<lifecycle, wire_room>>

\* SyncLanguageServer.open_file entered (lines 1049-1057): `with
\* self.language_server.open_file(...)`, called where the caller is
SyncOpenFile(c, path) ==
    Constructed /\ OpenFileOnBuffers(c, path) /\ OnCallerThread(c)

\* the body of a scope of SyncLanguageServer.open_file returns (line 1057)
SyncCloseFile(c) ==
    Constructed /\ CloseFileOnBuffers(c) /\ OnCallerThread(c)

\* SyncLanguageServer.insert_text_at_position (lines 1059-1071)
SyncInsertTextAtPosition(c, path, line, col, text) ==
    Constructed /\ InsertTextOnBuffers(c, path, line, col, text) /\ OnCallerThread(c)

\* the positions that lie in the contents of the buffer of path
PositionsIn(path) ==
    IF path \in DOMAIN open_file_buffers
    THEN LET text == open_file_buffers[path].contents
         IN  {p \in (0..Len(text)) \X (0..Len(text)) : ValidPosition(text, p[1], p[2])}
    ELSE {<<0, 0>>}

\* the document the callers query
QueriedPaths == {"a.py"}

\* The session with its cooperative callers working on one document: scopes,
\* an insert and a delete at the head of the document, and requests
Next ==
    \/ StartServerEnter
    \/ StartServerExit
    \/ \E c \in Callers, p \in QueriedPaths : OpenFile(c, p)
    \/ \E c \in Callers : CloseFile(c)
    \/ \E c \in Callers : RaiseInFile(c)
    \/ \E c \in Callers, p \in QueriedPaths : InsertTextAtPosition(c, p, 0, 0, <<"x">>)
    \/ \E c \in Callers, p \in QueriedPaths : DeleteTextBetweenPositions(c, p, 0, 0, 0, 1)
    \/ \E c \in Callers, p \in QueriedPaths : RequestDefinition(c, p)
    \/ \E c \in Callers, r \in Responses : DefinitionResponse(c, r)
    \/ \E c \in Callers, p \in QueriedPaths : RequestDocumentSymbols(c, p)
    \/ \E c \in Callers, r \in Responses : DocumentSymbolsResponse(c, r)

Spec == Init /\ [][Next]_vars

\* The buffer manager alone, with its callers working on two documents:
\* scopes, and an insert and a delete at the head of a document
NextBuffers ==
    \/ StartServerEnter
    \/ StartServerExit
    \/ \E c \in Callers, p \in Paths : OpenFile(c, p)
    \/ \E c \in Callers : CloseFile(c)
    \/ \E c \in Callers : RaiseInFile(c)
    \/ \E c \in Callers, p \in Paths : InsertTextAtPosition(c, p, 0, 0, <<"x">>)
    \/ \E c \in Callers, p \in Paths : DeleteTextBetweenPositions(c, p, 0, 0, 0, 1)

SpecBuffers == Init /\ [][NextBuffers]_vars

\* One caller editing one document: every insert and delete at every position
NextEdit ==
    \/ StartServerEnter
    \/ OpenFile("t1", "a.py")
    \/ CloseFile("t1")
    \/ \E p \in PositionsIn("a.py"), t \in InsertTexts :
          InsertTextAtPosition("t1", "a.py", p[1], p[2], t)
    \/ \E p \in PositionsIn("a.py"), q \in PositionsIn("a.py") :
          DeleteTextBetweenPositions("t1", "a.py", p[1], p[2], q[1], q[2])
    \/ GetOpenFileText("t1", "a.py")

SpecEdit == Init /\ [][NextEdit]_vars

\* One caller asking for completions on one document, the server answering
\* each request in any of its ways
NextCompletions ==
    \/ StartServerEnter
    \/ StartServerExit
    \/ \E allow \in BOOLEAN : RequestCompletions("t1", "a.py", allow)
    \/ \E r \in CompletionResponses : CompletionResponse("t1", r)

SpecCompletions == Init /\ [][NextCompletions]_vars

\* what the cache file can be when a LanguageServer is constructed
CacheFilesAtConstruction ==
    { CacheFile("absent", <<>>, 0), CacheFile("empty", <<>>, 0), CacheFile("unreadable", <<>>, 0),
      CacheFile("pickle", [p \in {"a.py"} |-> <<MD5(<<"b">>), SymbolsOf(<<"b">>)>>], 0) }

\* __init__ has given the fields their first values (lines 159-181) and is
\* about to call load_cache
InitSession ==
    /\ server_started = FALSE
    /\ open_file_buffers = <<>>
    /\ document_symbols_cache = <<>>
    /\ wire = <<>>
    /\ scopes = [c \in Callers |-> <<>>]
    /\ pc = [c \in Callers |-> Idle]
    /\ ret = Ret("none", "none", <<>>)
    /\ loop = "None"
    /\ was_stopped = FALSE
    /\ cache_has_changed = "unset"
    /\ cache_file \in CacheFilesAtConstruction
    /\ loop_thread = "None"
    /\ threads_alive = 0
    /\ in_server_scope = FALSE
    /\ ran_on_caller = {}
    /\ wire_room = MaxWire

\* A SyncLanguageServer from its construction on: start and stop, and callers
\* that open a document, edit it and ask for its symbols
NextSession ==
    \/ Construct
    \/ Start
    \/ Stop
    \/ SyncStartServerEnter
    \/ SyncStartServerExit
    \/ SyncStartServerRaise
    \/ \E c \in Callers, p \in QueriedPaths : SyncOpenFile(c, p)
    \/ \E c \in Callers : SyncCloseFile(c)
    \/ \E c \in Callers, p \in QueriedPaths : SyncInsertTextAtPosition(c, p, 0, 0, <<"x">>)
    \/ \E c \in Callers, p \in QueriedPaths : SyncRequestDocumentSymbols(c, p)
    \/ loop = "running" /\ \E c \in Callers, r \in Responses : DocumentSymbolsResponse(c, r)

SpecSession == InitSession /\ [][NextSession]_vars

\* request_containing_symbol on a.py and on c.py, called by one caller while
\* the other opens the files and edits a.py, so that the line "a" of a.py
\* becomes blank or its blank line becomes "x"
ContainingPaths == {"a.py", "c.py"}
Editors == {"t1"}
Requesters == {"t2"}
EditsOfLines == {<<0, <<NL>>>>, <<1, <<"x">>>>}

\* the queries made: every position and strictness on c.py, the lines of
\* a.py and the line after them
ContainingQueries ==
    ({"c.py"} \X QueryLines \X QueryColumns \X BOOLEAN)
        \cup ({"a.py"} \X (0..2) \X {NoColumn} \X {FALSE})

InitContaining == Init /\ document_symbols_cache = <<>>

NextContaining ==
    \/ StartServerEnter
    \/ \E c \in Editors, p \in ContainingPaths : OpenFile(c, p)
    \/ \E c \in Editors : CloseFile(c)
    \/ \E c \in Editors, e \in EditsOfLines :
          InsertTextAtPosition(c, "a.py", e[1], 0, e[2])
    \/ \E c \in Requesters, q \in ContainingQueries :
          RequestContainingSymbol(c, q[1], q[2], q[3], q[4])
    \/ \E c \in Requesters, resp \in Responses :
          \E symbols \in AnswersWith(resp, pc[c].path) :
             ContainingSymbolResponse(c, resp, symbols)

SpecContaining == InitContaining /\ [][NextContaining]_vars

\* the container of the class, the method and the variable of c.py asked for
\* while a.py or c.py is opened, a.py edited, and closed
NextContainerOf ==
    \/ StartServerEnter
    \/ \E c \in Editors, p \in ContainingPaths : OpenFile(c, p)
    \/ \E c \in Editors : CloseFile(c)
    \/ \E c \in Editors, e \in EditsOfLines :
          InsertTextAtPosition(c, "a.py", e[1], 0, e[2])
    \/ \E c \in Requesters, s \in ContainerQueries : RequestContainerOfSymbol(c, s)
    \/ \E c \in Requesters, resp \in Responses :
          \E symbols \in AnswersWith(resp, pc[c].path) :
             ContainingSymbolResponse(c, resp, symbols)

SpecContainerOf == InitContaining /\ [][NextContainerOf]_vars

\* the symbols of a.py asked for while it is opened, edited and closed: every
\* answer a server gives, nested, flat, null or an error
InitSymbols == Init /\ document_symbols_cache = <<>>

NextSymbols ==
    \/ StartServerEnter
    \/ \E c \in Editors : OpenFile(c, "a.py")
    \/ \E c \in Editors : CloseFile(c)
    \/ \E c \in Editors, e \in EditsOfLines :
          InsertTextAtPosition(c, "a.py", e[1], 0, e[2])
    \/ \E c \in Requesters : RequestDocumentSymbols(c, "a.py")
    \/ \E c \in Requesters, answer \in DocumentSymbolAnswers :
          \E response \in DocumentSymbolResponses :
             DocumentSymbolsArrive(c, answer, response)

SpecSymbols == InitSymbols /\ [][NextSymbols]_vars

\* a.py opened, edited, closed and opened again: a log long enough for two
\* episodes of the document, each with an edit
InitReopen ==
    /\ AfterConstruction
    /\ document_symbols_cache = <<>>
    /\ wire_room = MaxWireReopen

NextReopen ==
    \/ StartServerEnter
    \/ \E c \in Callers : OpenFile(c, "a.py")
    \/ \E c \in Callers : CloseFile(c)
    \/ \E c \in Editors, e \in EditsOfLines :
          InsertTextAtPosition(c, "a.py", e[1], 0, e[2])
    \/ \E c \in Editors : DeleteTextBetweenPositions(c, "a.py", 0, 0, 0, 1)

SpecReopen == InitReopen /\ [][NextReopen]_vars

\* the symbols that reference x of c.py asked for, from its definition and
\* from a use, while c.py or b.py is opened and closed: an earlier session
\* left the symbols of both files in the cache
InitReferencing ==
    /\ server_started = FALSE
    /\ open_file_buffers = <<>>
    /\ document_symbols_cache =
          [p \in ReferencingPaths |-> <<MD5(DiskContents(p)), SymbolsOnDisk(p)>>]
    /\ wire = <<>>
    /\ scopes = [c \in Callers |-> <<>>]
    /\ pc = [c \in Callers |-> Idle]
    /\ ret = Ret("none", "none", <<>>)
    /\ loop = "None"
    /\ was_stopped = FALSE
    /\ cache_has_changed = "bool"
    /\ cache_file = CacheFile("pickle", document_symbols_cache, 0)
    /\ loop_thread = "None"
    /\ threads_alive = 0
    /\ in_server_scope = FALSE
    /\ ran_on_caller = {}
    /\ wire_room = MaxWireReferencing

NextReferencing ==
    \/ StartServerEnter
    \/ \E c \in Editors, p \in ReferencingPaths : OpenFile(c, p)
    \/ \E c \in Editors : CloseFile(c)
    \/ \E c \in Requesters, q \in ReferencingQueries, include_imports, include_self \in BOOLEAN :
          RequestReferencingSymbols(c, q[1], q[2], q[3], include_imports, include_self)
    \/ \E c \in Requesters, resp \in Responses, references \in ReferenceLists :
          ReferencesResponse(c, resp, references)

SpecReferencing == InitReferencing /\ [][NextReferencing]_vars
----------------------------------------------------------------------------
(* Vocabulary of the properties *)

\* the number of scopes on uri that callers are inside
HoldersOf(uri) ==
    Cardinality({x \in UNION {{<<c, i>> : i \in DOMAIN scopes[c]} : c \in Callers} :
                    scopes[x[1]][x[2]] = uri})

\* the number of messages of a method written for uri among the first n
CountUpTo(method, uri, n) ==
    Cardinality({i \in 1..n : wire[i].method = method /\ wire[i].uri = uri})

Count(method, uri) == CountUpTo(method, uri, Len(wire))

\* uri is open at the server when message i is written
OpenBefore(uri, i) ==
    CountUpTo("textDocument/didOpen", uri, i - 1)
        - CountUpTo("textDocument/didClose", uri, i - 1)

\* a scope on uri is left, by its body returning / by its body raising
ScopeLeft(uri) == HoldersOf(uri)' = HoldersOf(uri) - 1
Returned == ret'.kind = "ok"
Raised == ret'.kind \in {"raised", "RpcError"}

----------------------------------------------------------------------------
\* C1: whenever the body of a scope on a document returns, didClose is written
\* for it, once, exactly if no caller remains inside a scope on the document
\* (the outermost scope was left), and the entry leaves the buffer table in
\* that same step; at an inner exit nothing is written and the entry stays.
C1_CloseAtOutermostExit ==
    [][\A uri \in Paths :
         (ScopeLeft(uri) /\ Returned) =>
            IF HoldersOf(uri)' = 0
            THEN /\ wire' = Append(wire, DidClose(uri))
                 /\ uri \notin DOMAIN open_file_buffers'
            ELSE /\ wire' = wire
                 /\ uri \in DOMAIN open_file_buffers']_vars

\* C2: whenever the body of a scope raises, the ref_count is decremented all
\* the same, and at 0 didClose is written and the entry removed.
C2_ReleaseOnRaise ==
    [][\A uri \in Paths :
         (ScopeLeft(uri) /\ Raised) =>
            IF open_file_buffers[uri].ref_count = 1
            THEN /\ wire' = Append(wire, DidClose(uri))
                 /\ uri \notin DOMAIN open_file_buffers'
            ELSE /\ uri \in DOMAIN open_file_buffers'
                 /\ open_file_buffers'[uri].ref_count = open_file_buffers[uri].ref_count - 1]_vars

\* C3: every entry of the buffer table has a ref_count of at least 1, and a
\* document a caller is inside a scope of has an entry.
C3_EntryIffRefCounted ==
    \A uri \in Paths :
        /\ uri \in DOMAIN open_file_buffers => open_file_buffers[uri].ref_count >= 1
        /\ HoldersOf(uri) >= 1 => uri \in DOMAIN open_file_buffers

\* a document was closed for good while another stays open under two scopes
C3_Witness ==
    /\ Count("textDocument/didClose", "b.py") = 1
    /\ "b.py" \notin DOMAIN open_file_buffers
    /\ "a.py" \in DOMAIN open_file_buffers
    /\ open_file_buffers["a.py"].ref_count = 2

\* C4: the content_hash of every open buffer is the MD5 of its contents.
C4_HashOfContents ==
    \A uri \in DOMAIN open_file_buffers :
        open_file_buffers[uri].content_hash = MD5(open_file_buffers[uri].contents)

\* the hash the cache is compared with when request_document_symbols is
\* called for path: that of the open buffer, or of the buffer about to be read
BufferHashAtCall(path) ==
    IF path \in DOMAIN open_file_buffers
    THEN open_file_buffers[path].content_hash
    ELSE MD5(DiskContents(path))

DocumentSymbolRequests(path) == Count("textDocument/documentSymbol", path)

\* C5: a call of documentSymbols for an open document whose cache entry is
\* stale (its hash is not the MD5 of the contents the buffer now holds, its
\* symbols were computed for other contents) does not return that entry: it
\* writes a fresh textDocument/documentSymbol request.
C5_StaleEntryNeverReturned ==
    [][\A c \in Callers, p \in Paths :
         ( /\ RequestDocumentSymbols(c, p)
           /\ server_started
           /\ p \in DOMAIN open_file_buffers
           /\ p \in DOMAIN document_symbols_cache
           /\ document_symbols_cache[p][1] # MD5(open_file_buffers[p].contents)
           /\ document_symbols_cache[p][2] # SymbolsOf(open_file_buffers[p].contents) )
         => /\ ret'.kind # "cached"
            /\ DocumentSymbolRequests(p)' = DocumentSymbolRequests(p) + 1]_vars

\* C6: a call of documentSymbols returns the cached result, and writes no
\* textDocument/documentSymbol request, exactly when the cache holds an entry
\* for the path whose hash is the buffer's content_hash; otherwise it writes
\* one request and waits. When the answer arrives the entry stored carries the
\* buffer's content_hash, so the next call on the unchanged file is such a hit.
C6_CachedIffHashMatches ==
    /\ [][\A c \in Callers, p \in Paths :
            (RequestDocumentSymbols(c, p) /\ server_started) =>
               IF /\ p \in DOMAIN document_symbols_cache
                  /\ document_symbols_cache[p][1] = BufferHashAtCall(p)
               THEN /\ ret' = Ret("request_document_symbols", "cached", <<document_symbols_cache[p][2]>>)
                    /\ DocumentSymbolRequests(p)' = DocumentSymbolRequests(p)
                    /\ pc'[c] = Idle
               ELSE /\ DocumentSymbolRequests(p)' = DocumentSymbolRequests(p) + 1
                    /\ pc'[c] = Awaiting("request_document_symbols", p)
                    /\ ret' = ret]_vars
    /\ [][\A c \in Callers :
            (DocumentSymbolsResponse(c, "result") /\ pc[c].path \in DOMAIN open_file_buffers') =>
               /\ pc[c].path \in DOMAIN document_symbols_cache'
               /\ document_symbols_cache'[pc[c].path][1]
                    = open_file_buffers'[pc[c].path].content_hash]_vars

\* a call was answered from the cache after a request for the file was written
C6_Witness ==
    /\ ret.kind = "cached"
    /\ DocumentSymbolRequests("a.py") = 1

\* C7: when the session ends with no caller inside a scope, as many didClose
\* as didOpen notifications were written for every document.
C7_OpensEqualCloses ==
    [][(server_started /\ ~server_started' /\ \A c \in Callers : scopes[c] = <<>>) =>
          \A uri \in Paths :
              Count("textDocument/didOpen", uri) = Count("textDocument/didClose", uri)]_vars

\* C8: for every document, a didOpen is written only while the document is
\* closed at the server and a didChange or didClose only while it is open:
\* the notifications of a document are didOpen, didChange*, didClose, repeated.
C8_NotificationOrder ==
    \A i \in DOMAIN wire :
        /\ wire[i].method = "textDocument/didOpen" => OpenBefore(wire[i].uri, i) = 0
        /\ wire[i].method \in {"textDocument/didChange", "textDocument/didClose"}
              => OpenBefore(wire[i].uri, i) = 1

\* a document was opened, changed and closed
C8_Witness ==
    /\ Len(wire) = 3
    /\ wire[1].method = "textDocument/didOpen"
    /\ wire[2].method = "textDocument/didChange"
    /\ wire[3].method = "textDocument/didClose"
    /\ wire[1].uri = wire[3].uri

\* the index of the last didOpen written for uri
LastOpen(uri) ==
    CHOOSE i \in DOMAIN wire :
        /\ wire[i].method = "textDocument/didOpen" /\ wire[i].uri = uri
        /\ \A j \in DOMAIN wire :
              (wire[j].method = "textDocument/didOpen" /\ wire[j].uri = uri) => j <= i

\* the didChange notifications written for uri after message i, in order
RECURSIVE ChangesAfter(_, _)
ChangesAfter(uri, i) ==
    IF i >= Len(wire) THEN <<>>
    ELSE IF wire[i + 1].method = "textDocument/didChange" /\ wire[i + 1].uri = uri
         THEN <<wire[i + 1]>> \o ChangesAfter(uri, i + 1)
         ELSE ChangesAfter(uri, i + 1)

ChangesSinceOpen(uri) == ChangesAfter(uri, LastOpen(uri))

\* C9: the didChange notifications written for an open buffer carry the
\* versions 1, 2, 3, ... in order, one more with each insert or delete, and
\* the buffer's version is that of the last one: no version is used twice.
C9_VersionPerEdit ==
    \A uri \in DOMAIN open_file_buffers :
        LET ch == ChangesSinceOpen(uri) IN
        /\ \A k \in DOMAIN ch : ch[k].version = k
        /\ open_file_buffers[uri].version = Len(ch)

\* a buffer was edited twice
C9_Witness ==
    /\ "a.py" \in DOMAIN open_file_buffers
    /\ open_file_buffers["a.py"].version = 2
    /\ Len(ChangesSinceOpen("a.py")) = 2

\* the lines of a text, without their line ends
RECURSIVE SplitLines(_)
SplitLines(text) ==
    IF text = <<>> THEN << <<>> >>
    ELSE IF Head(text) = NL THEN << <<>> >> \o SplitLines(Tail(text))
    ELSE LET r == SplitLines(Tail(text)) IN << <<Head(text)>> \o r[1] >> \o Tail(r)

\* lines joined by line ends
RECURSIVE JoinLines(_)
JoinLines(ls) ==
    IF Len(ls) = 1 THEN ls[1] ELSE ls[1] \o <<NL>> \o JoinLines(Tail(ls))

\* a plain string with the span of `range` replaced by `text`, worked out on
\* its lines: the lines before, the head of the start line, the text, the rest
\* of the end line, the lines after
ApplyEdit(str, range, text) ==
    LET ls == SplitLines(str)
        first == ls[range[1] + 1]
        last == ls[range[3] + 1]
    IN  JoinLines(SubSeq(ls, 1, range[1]) \o <<SubSeq(first, 1, range[2])>>)
          \o text
          \o JoinLines(<<SubSeq(last, range[4] + 1, Len(last))>> \o SubSeq(ls, range[3] + 2, Len(ls)))

\* the edits of `changes`, from the k-th on, applied in order to a plain string
RECURSIVE ApplyEdits(_, _, _)
ApplyEdits(str, changes, k) ==
    IF k > Len(changes) THEN str
    ELSE ApplyEdits(ApplyEdit(str, changes[k].range, changes[k].text), changes, k + 1)

\* the text a document was opened with, with the edits made since applied to it
EditedCopy(uri) == ApplyEdits(wire[LastOpen(uri)].text, ChangesSinceOpen(uri), 1)

\* C10: the contents of an open buffer are the text it was opened with, with
\* the inserts and deletes made since applied in order to a plain copy of that
\* text, and get_open_file_text returns just that.
C10_EditsAsOnPlainString ==
    /\ [](\A uri \in DOMAIN open_file_buffers :
              open_file_buffers[uri].contents = EditedCopy(uri))
    /\ [][\A c \in Callers, p \in Paths :
            (GetOpenFileText(c, p) /\ server_started /\ p \in DOMAIN open_file_buffers) =>
               ret' = Ret("get_open_file_text", "ok", EditedCopy(p))]_vars

\* a text was inserted and a span deleted, and the text read back
C10_Witness ==
    /\ "a.py" \in DOMAIN open_file_buffers
    /\ Len(ChangesSinceOpen("a.py")) = 2
    /\ \E k \in {1, 2} : ChangesSinceOpen("a.py")[k].text # <<>>
    /\ \E k \in {1, 2} : LET m == ChangesSinceOpen("a.py")[k]
                         IN  m.text = <<>> /\ <<m.range[1], m.range[2]>> # <<m.range[3], m.range[4]>>
    /\ ret.op = "get_open_file_text"
    /\ ret.kind = "ok"
    /\ ret.val = open_file_buffers["a.py"].contents
    /\ open_file_buffers["a.py"].contents # DiskContents("a.py")

\* the last message written
LastMsg == wire[Len(wire)]

\* the delete that takes back the insert the last message tells of: from the
\* position of the insert to the cursor position the insert returned
UndoLastInsert(c) ==
    LET m == LastMsg
        q == GetUpdatedPosition(m.range[1], m.range[2], m.text)
    IN  DeleteTextBetweenPositions(c, m.uri, m.range[1], m.range[2], q[1], q[2])

\* C11: when text X was inserted at position p of an open buffer and the span
\* from p to the position the insert returned is deleted next, the delete
\* returns X, the contents are again what they were before the insert, the
\* version is two more than before the insert, and the two didChange
\* notifications carry consecutive versions.
C11_InsertThenDeleteRestores ==
    [][\A c \in Callers :
         ( /\ wire # <<>>
           /\ LastMsg.method = "textDocument/didChange"
           /\ LastMsg.text # <<>>
           /\ server_started
           /\ LastMsg.uri \in DOMAIN open_file_buffers
           /\ UndoLastInsert(c) )
         => LET uri == LastMsg.uri
                before == ChangesSinceOpen(uri)
            IN  /\ ret' = Ret("delete_text_between_positions", "ok", LastMsg.text)
                /\ open_file_buffers'[uri].contents
                     = ApplyEdits(wire[LastOpen(uri)].text, SubSeq(before, 1, Len(before) - 1), 1)
                /\ open_file_buffers'[uri].version = (LastMsg.version - 1) + 2
                /\ wire'[Len(wire')].method = "textDocument/didChange"
                /\ wire'[Len(wire')].version = LastMsg.version + 1
                /\ Len(wire') = Len(wire) + 1]_vars

\* from a fresh open, a text was inserted and taken back by the delete
C11_Witness ==
    /\ Len(wire) = 3
    /\ wire[1].method = "textDocument/didOpen"
    /\ wire[2].method = "textDocument/didChange" /\ wire[2].version = 1
    /\ wire[2].text # <<>>
    /\ wire[3].method = "textDocument/didChange" /\ wire[3].version = 2
    /\ wire[3].text = <<>>
    /\ <<wire[3].range[1], wire[3].range[2]>> = <<wire[2].range[1], wire[2].range[2]>>
    /\ <<wire[3].range[3], wire[3].range[4]>>
          = GetUpdatedPosition(wire[2].range[1], wire[2].range[2], wire[2].text)
    /\ ret.op = "delete_text_between_positions"
    /\ ret.kind = "ok"
    /\ ret.val = wire[2].text
    /\ "a.py" \in DOMAIN open_file_buffers
    /\ open_file_buffers["a.py"].contents = DiskContents("a.py")
    /\ open_file_buffers["a.py"].version = 2

\* C12: once the session was stopped it is never started again: a start after
\* a stop is rejected.
C12_NoRestartAfterStop == was_stopped => ~server_started

\* an operation other than start is invoked by a caller
Invocation ==
    \E c \in Callers, p \in Paths :
        \/ OpenFile(c, p)
        \/ InsertTextAtPosition(c, p, 0, 0, <<"x">>)
        \/ DeleteTextBetweenPositions(c, p, 0, 0, 0, 1)
        \/ GetOpenFileText(c, p)
        \/ RequestDefinition(c, p)
        \/ RequestDocumentSymbols(c, p)
        \/ SyncRequestDocumentSymbols(c, p)

\* C13: an operation invoked while the session is not started fails with
\* NotStarted, writes nothing to the server and changes neither the buffer
\* table nor the cache.
C13_NotStartedRejects ==
    [][(Constructed /\ ~server_started /\ Invocation) =>
          /\ ret'.kind = "NotStarted"
          /\ UNCHANGED <<wire, open_file_buffers, document_symbols_cache>>]_vars

\* C14: when the server answers a request with an error, only that call
\* fails: the session stays started, and the buffer table is left as the
\* call found it, the scope the call had entered being left as by a return.
C14_FailureIsLocal ==
    [][\A c \in Callers :
         (pc[c] # Idle /\ pc'[c] = Idle /\ ret'.kind = "RpcError") =>
            /\ server_started' = server_started
            /\ open_file_buffers' = OpenFileExit(open_file_buffers, pc[c].path)]_vars

\* the ref_count of every document is the number of scopes callers are inside
RefCountsAreHolders ==
    \A uri \in Paths :
        IF uri \in DOMAIN open_file_buffers
        THEN open_file_buffers[uri].ref_count = HoldersOf(uri)
        ELSE HoldersOf(uri) = 0

\* C15: whenever a caller sends a request or its await ends, whatever the
\* other callers are doing on the same document: a didClose is written for a
\* document only in a step after which no caller is inside a scope on it, and
\* every ref_count is the number of callers inside a scope on the document.
C15_NoCloseWhileHeld ==
    [][(\E c \in Callers : pc'[c] # pc[c]) =>
          /\ RefCountsAreHolders'
          /\ \A uri \in Paths :
                Count("textDocument/didClose", uri)' > Count("textDocument/didClose", uri)
                   => HoldersOf(uri)' = 0]_vars

\* C16: stop writes the cache file exactly if an entry was stored in the
\* cache, which is what sets the flag to True: with the flag as construction
\* left it, stop writes nothing.
C16_SavedIffChanged ==
    [][(Stop /\ loop # "None") =>
          (cache_file'.writes = cache_file.writes + 1 <=> cache_has_changed = "True")]_vars

\* C17: construction succeeds whatever the cache file is, and when the file
\* is absent, empty or unreadable the cache starts as the empty map.
C17_LoadNeverFails ==
    [][Construct =>
          /\ ret'.kind = "ok"
          /\ Constructed'
          /\ cache_file.kind # "pickle" => document_symbols_cache' = <<>>]_vars

\* the textDocument/completion requests the call of c has written: one each
\* time it went round its loop, and the one it is awaiting
CompletionRequestsOf(c) == pc[c].num_retries + 1

\* C18: a completions call writes at most 30 textDocument/completion
\* requests, and when it gives up on a response that is still incomplete,
\* allow_incomplete being false, it returns the empty list.
C18_AtMostThirtyRequests ==
    [][\A c \in Callers :
         /\ pc'[c].op = "request_completions" => CompletionRequestsOf(c)' <= MaxRetries
         /\ ( /\ CompletionResponse(c, "incomplete")
              /\ pc'[c] = Idle
              /\ ~pc[c].allow_incomplete )
            => ret' = Ret("request_completions", "ok", <<>>)]_vars

\* C19: with allow_incomplete true a response that is incomplete is not
\* retried: no further request is written and the call returns the
\* completions of that response.
C19_AllowIncompleteNotRetried ==
    [][\A c \in Callers :
         (CompletionResponse(c, "incomplete") /\ pc[c].allow_incomplete) =>
            /\ pc'[c] = Idle
            /\ Written("textDocument/completion")' = Written("textDocument/completion")
            /\ ret' = Ret("request_completions", "ok", CompletionsOf("incomplete"))]_vars

\* C20: entering a scope on a document that has no entry in the buffer table
\* reads its contents from disk, adds an entry with those contents, ref_count
\* 1 and version 0, and writes exactly one message, a didOpen with version 0
\* and those contents; the other entries stay as they are.
C20_FirstOpenReadsDisk ==
    [][\A c \in Callers, p \in Paths :
         (OpenFile(c, p) /\ server_started /\ p \notin DOMAIN open_file_buffers) =>
            /\ DOMAIN open_file_buffers' = DOMAIN open_file_buffers \cup {p}
            /\ open_file_buffers'[p].contents = DiskContents(p)
            /\ open_file_buffers'[p].ref_count = 1
            /\ open_file_buffers'[p].version = 0
            /\ \A q \in DOMAIN open_file_buffers : open_file_buffers'[q] = open_file_buffers[q]
            /\ wire' = Append(wire, DidOpen(p, 0, DiskContents(p)))]_vars

\* b.py was opened for the first time while a.py, edited, is open
C20_Witness ==
    /\ wire # <<>>
    /\ LastMsg = DidOpen("b.py", 0, DiskContents("b.py"))
    /\ Count("textDocument/didOpen", "b.py") = 1
    /\ "b.py" \in DOMAIN open_file_buffers
    /\ open_file_buffers["b.py"].ref_count = 1
    /\ open_file_buffers["b.py"].version = 0
    /\ "a.py" \in DOMAIN open_file_buffers
    /\ open_file_buffers["a.py"].version = 1
    /\ ret = Ret("open_file", "ok", <<>>)

\* C21: entering a scope on a document that has an entry in the buffer table
\* adds 1 to its ref_count and changes nothing else: no message is written,
\* and the contents and the version stay what the edits made them, the file
\* not being read again.
C21_OpenAgainOnlyCounts ==
    [][\A c \in Callers, p \in Paths :
         (OpenFile(c, p) /\ server_started /\ p \in DOMAIN open_file_buffers) =>
            /\ open_file_buffers' = [open_file_buffers EXCEPT ![p].ref_count = @ + 1]
            /\ wire' = wire]_vars

\* a.py, edited, was opened a second time and still holds the edited text
C21_Witness ==
    /\ "a.py" \in DOMAIN open_file_buffers
    /\ open_file_buffers["a.py"].ref_count = 2
    /\ open_file_buffers["a.py"].version = 1
    /\ open_file_buffers["a.py"].contents # DiskContents("a.py")
    /\ HoldersOf("a.py") = 2
    /\ Count("textDocument/didOpen", "a.py") = 1
    /\ LastMsg.method = "textDocument/didChange"
    /\ ret = Ret("open_file", "ok", <<>>)

\* an insert, a delete or a get_open_file_text is called for path by c
EditOrRead(c, path) ==
    \/ \E p \in PositionsIn(path), t \in InsertTexts :
          InsertTextAtPosition(c, path, p[1], p[2], t)
    \/ \E p \in PositionsIn(path), q \in PositionsIn(path) :
          DeleteTextBetweenPositions(c, path, p[1], p[2], q[1], q[2])
    \/ GetOpenFileText(c, path)

\* C22: with the session started, an insert, a delete or a get_open_file_text
\* on a document that has no entry in the buffer table fails with an
\* AssertionError and changes nothing: no buffer, no version, no message.
C22_NotOpenAsserts ==
    [][\A c \in Callers, p \in Paths :
         (server_started /\ p \notin DOMAIN open_file_buffers /\ EditOrRead(c, p)) =>
            /\ ret'.kind = "AssertionError"
            /\ UNCHANGED <<open_file_buffers, wire, document_symbols_cache, server_started>>]_vars

\* the text of a document that was opened, edited and closed was asked for
C22_Witness ==
    /\ server_started
    /\ "a.py" \notin DOMAIN open_file_buffers
    /\ Count("textDocument/didChange", "a.py") = 1
    /\ Count("textDocument/didClose", "a.py") = 1
    /\ ret = Ret("get_open_file_text", "AssertionError", <<>>)

\* C23: every operation of the synchronous facade, the ones on buffers
\* included, runs on the scheduler thread, so that no caller's own thread ever
\* reads or changes the buffer table.
C23_BuffersOnlyOnScheduler == ran_on_caller = {}

\* C24: whatever the sequence of start(), stop() and start_server scopes, at
\* most one scheduler thread is alive, and exactly one is alive between a
\* completed start and the stop that follows it.
C24_OneSchedulerThread ==
    /\ threads_alive <= 1
    /\ (loop_thread = "set" \/ in_server_scope) => threads_alive = 1

\* C25: leaving the scope of the synchronous start_server, by return or by
\* exception, shuts the session down, ends the scheduler thread and flushes
\* the cache as stop() does.
C25_ScopeExitStops ==
    [][(in_server_scope /\ ~in_server_scope') =>
          /\ ~server_started'
          /\ loop' # "running"
          /\ threads_alive' = threads_alive - 1
          /\ cache_file' = SaveCache(cache_has_changed, document_symbols_cache, cache_file)]_vars


----------------------------------------------------------------------------
(* Vocabulary of the claims on request_containing_symbol *)

\* the lines of the contents the buffer of path now holds
BufferLines(path) == SplitLines(open_file_buffers[path].contents)

\* the query caller c makes or awaits the symbols for
QueryOf(c) == <<pc[c].path, pc[c].line, pc[c].column, pc[c].strict>>

\* every list of symbols a server answers with
AnswersOfServer == ServerSymbolLists \cup ServerSymbolsFor("a.py")

\* the range of s contains the position, as the rule for ranges has it
RangeContains(s, line, column, strict) ==
    LET start == s.range.start
        end == s.range.end
    IN  IF strict
        THEN /\ start.line < line /\ line <= end.line
             /\ column # NoColumn => column > start.character
        ELSE /\ start.line <= line /\ line <= end.line
             /\ column # NoColumn => column >= start.character

OneLine(s) == s.range.start.line = s.range.end.line

\* s is a candidate, as the rule for candidates has it
IsCandidate(s) ==
    \/ s.kind = "Variable"
    \/ s.kind \in {"Class", "Function", "Method"} /\ ~OneLine(s)

\* the candidates among symbols whose range contains the position
Matching(symbols, line, column, strict) ==
    {symbols[i] : i \in {j \in 1..Len(symbols) :
                           /\ IsCandidate(symbols[j])
                           /\ RangeContains(symbols[j], line, column, strict)}}

\* s starts where r starts, or before
StartsNoLater(s, r) ==
    \/ s.range.start.line < r.range.start.line
    \/ /\ s.range.start.line = r.range.start.line
       /\ s.range.start.character <= r.range.start.character

\* what a server reports for c.py: its class and method, with or without
\* the variable
ExampleSymbolLists == { <<SymC, SymM>>, <<SymC, SymM, SymX>> }

\* C26: containing_symbol asked about a line of an open buffer returns None
\* and writes no documentSymbol request when that line, in the contents the
\* buffer holds after the edits made in memory, is only whitespace; when it
\* is not, the rule for blank lines does not decide the call, and without a
\* usable cache entry the symbols are requested.
C26_BlankLineOfBuffer ==
    [][\A c \in Requesters, q \in ContainingQueries :
         ( /\ RequestContainingSymbol(c, q[1], q[2], q[3], q[4])
           /\ server_started
           /\ q[1] \in DOMAIN open_file_buffers
           /\ q[2] < Len(BufferLines(q[1])) ) =>
            IF IsBlank(BufferLines(q[1])[q[2] + 1])
            THEN /\ ret' = Ret("request_containing_symbol", "ok", <<>>)
                 /\ DocumentSymbolRequests(q[1])' = DocumentSymbolRequests(q[1])
            ELSE ~CacheHit(document_symbols_cache, q[1], open_file_buffers[q[1]]) =>
                    DocumentSymbolRequests(q[1])' = DocumentSymbolRequests(q[1]) + 1]_vars

\* C27: when the symbols arrive, containing_symbol returns None if no
\* candidate contains the position, and else a candidate containing it that
\* no other such candidate starts after, by line first and by character
\* second.
C27_InnermostWithTieBreak ==
    [][\A c \in Requesters, symbols \in AnswersOfServer :
         ContainingSymbolResponse(c, "result", symbols) =>
            LET q == QueryOf(c)
                matching == Matching(symbols, q[2], q[3], q[4])
            IN  IF matching = {}
                THEN ret'.val = <<>>
                ELSE /\ ret'.val # <<>>
                     /\ ret'.val[1] \in matching
                     /\ \A s \in matching : StartsNoLater(s, ret'.val[1])]_vars

\* C28: on c.py, with the symbols a server reports for it, containing_symbol
\* returns the method m at (2,8) and at (1,6) when not strict, the class C at
\* (1,6) when strict, and None at (3,0); and at every position of line 2, the
\* body of m, it returns m.
C28_ExampleResolvesToMethod ==
    [][\A c \in Requesters :
         /\ \A symbols \in ExampleSymbolLists :
              (ContainingSymbolResponse(c, "result", symbols) /\ pc[c].path = "c.py") =>
                 LET q == QueryOf(c)
                 IN  /\ (q[2] = 2 /\ q[3] = 8 /\ ~q[4]) => ret'.val = <<SymM>>
                     /\ (q[2] = 1 /\ q[3] = 6 /\ ~q[4]) => ret'.val = <<SymM>>
                     /\ (q[2] = 1 /\ q[3] = 6 /\ q[4]) => ret'.val = <<SymC>>
                     /\ q[2] = 2 => ret'.val = <<SymM>>
         /\ \A strict \in BOOLEAN :
              (RequestContainingSymbol(c, "c.py", 3, 0, strict) /\ server_started) =>
                 ret' = Ret("request_containing_symbol", "ok", <<>>)]_vars

\* C29: when the symbols arrive, containing_symbol returns a symbol exactly
\* if some candidate's range contains the position, and the symbol it returns
\* is such a candidate: not strict, from the start line to the end line and,
\* a column given, from the start character on; strict, after the start line
\* and, a column given, after the start character.
C29_ContainsAsSpecified ==
    [][\A c \in Requesters, symbols \in AnswersOfServer :
         ( /\ pc[c].op = "request_containing_symbol"
           /\ ret'.op = "request_containing_symbol"
           /\ ContainingSymbolResponse(c, "result", symbols) ) =>
            LET q == QueryOf(c)
                matching == Matching(symbols, q[2], q[3], q[4])
            IN  /\ ret'.val = <<>> <=> matching = {}
                /\ ret'.val # <<>> => ret'.val[1] \in matching]_vars

\* the strict query (1,6) on c.py returned the class C, the symbols being the
\* class and the method m that starts on line 1
C29_Witness ==
    /\ ret = Ret("request_containing_symbol", "ok", <<SymC>>)
    /\ "c.py" \in DOMAIN document_symbols_cache
    /\ document_symbols_cache["c.py"][2] = <<SymC, SymM>>

----------------------------------------------------------------------------
\* the log grew by one message, and this is it
OneMoreMsg == Len(wire') = Len(wire) + 1 /\ SubSeq(wire', 1, Len(wire)) = wire
NewMsg == wire'[Len(wire')]

\* C36: an insert into an open buffer writes one didChange, its range
\* starting and ending at the position of the insert and its text the text
\* inserted; a delete writes one didChange with the range deleted and no
\* text, and returns the text that is gone from the contents.
C36_OneChangePerEdit ==
    [][(server_started /\ "a.py" \in DOMAIN open_file_buffers) =>
        /\ ret'.op = "insert_text_at_position" =>
             \A p \in PositionsIn("a.py"), t \in InsertTexts :
                InsertTextAtPosition("t1", "a.py", p[1], p[2], t) =>
                   /\ OneMoreMsg
                   /\ NewMsg.method = "textDocument/didChange"
                   /\ NewMsg.uri = "a.py"
                   /\ NewMsg.range = <<p[1], p[2], p[1], p[2]>>
                   /\ NewMsg.text = t
        /\ ret'.op = "delete_text_between_positions" =>
             \A p \in PositionsIn("a.py"), q \in PositionsIn("a.py") :
                DeleteTextBetweenPositions("t1", "a.py", p[1], p[2], q[1], q[2]) =>
                   /\ OneMoreMsg
                   /\ NewMsg.method = "textDocument/didChange"
                   /\ NewMsg.uri = "a.py"
                   /\ NewMsg.range = <<p[1], p[2], q[1], q[2]>>
                   /\ NewMsg.text = <<>>
                   /\ ret'.kind = "ok"
                   /\ Len(ret'.val) = Len(open_file_buffers["a.py"].contents)
                                        - Len(open_file_buffers'["a.py"].contents)
                   /\ ApplyEdit(open_file_buffers'["a.py"].contents,
                                <<p[1], p[2], p[1], p[2]>>, ret'.val)
                        = open_file_buffers["a.py"].contents]_vars

\* a text was inserted, then a span that is not empty deleted and returned
C36_Witness ==
    /\ Len(wire) = 3
    /\ wire[2].method = "textDocument/didChange" /\ wire[2].text # <<>>
    /\ wire[3].method = "textDocument/didChange" /\ wire[3].text = <<>>
    /\ ret.op = "delete_text_between_positions"
    /\ ret.kind = "ok"
    /\ ret.val # <<>>

\* C37: every entry of the document symbol cache pairs its symbols with the
\* MD5 of the contents they were computed for, the contents of the buffer
\* when the textDocument/documentSymbol request was answered.
C37_CacheEntrySound ==
    \A p \in DOMAIN document_symbols_cache :
        document_symbols_cache[p][1] = MD5(document_symbols_cache[p][2].symbols_of)

\* C39: a completions call that has had thirty responses does not send
\* again when the next response is null: it returns, so that no sequence of
\* responses keeps it sending for ever.
C39_NullResponseGivesUp ==
    [][\A c \in Callers :
         (CompletionResponse(c, "None") /\ pc[c].num_retries + 1 >= MaxRetries) =>
            /\ pc'[c] = Idle
            /\ Written("textDocument/completion")' = Written("textDocument/completion")]_vars

\* what container_of_symbol returned for s is None, or a symbol other than s
\* that starts on an earlier line
NotItself(val, s) ==
    \/ val = <<>>
    \/ /\ <<val[1].name, val[1].kind, val[1].range>> # <<s.name, s.kind, s.range>>
       /\ val[1].range.start.line < s.range.start.line

\* C31: container_of_symbol asks containing_symbol about the start of the
\* symbol's own range with strict true, and what it returns, from the cache
\* or when the symbols arrive, is never the symbol itself: it is None or
\* another symbol, one that starts on an earlier line.
C31_NeverItsOwnContainer ==
    [][\A c \in Requesters, s \in ContainerQueries :
         /\ ( /\ server_started
              /\ pc[c] = Idle
              /\ pc'[c] # Idle \/ ret'.op = "request_container_of_symbol"
              /\ RequestContainerOfSymbol(c, s) ) =>
               IF pc'[c] # Idle
               THEN pc'[c] = AwaitingContainingFor("request_container_of_symbol",
                                                   s.location.relativePath,
                                                   s.range.start.line,
                                                   s.range.start.character, TRUE)
               ELSE ret'.kind = "ok" => NotItself(ret'.val, s)
         /\ ( /\ pc[c] = AwaitingContainingFor("request_container_of_symbol",
                                               s.location.relativePath,
                                               s.range.start.line,
                                               s.range.start.character, TRUE)
              /\ \E symbols \in AnswersOfServer : ContainingSymbolResponse(c, "result", symbols) )
            => /\ ret'.op = "request_container_of_symbol"
               /\ NotItself(ret'.val, s)]_vars

\* the container of the variable x was asked for and the method m returned
C31_Witness ==
    /\ ret = Ret("request_container_of_symbol", "ok", <<SymM>>)
    /\ "c.py" \in DOMAIN document_symbols_cache
    /\ document_symbols_cache["c.py"][2] = <<SymC, SymM, SymX>>


----------------------------------------------------------------------------
(* the buffer table across a request that completes *)

\* the ref_count a table holds for a path, 0 when it holds no buffer
RefCountOf(bufs, path) == IF path \in DOMAIN bufs THEN bufs[path].ref_count ELSE 0

\* the two tables agree on every document but the path
SameElsewhere(before, after, path) ==
    /\ DOMAIN before \ {path} = DOMAIN after \ {path}
    /\ \A q \in DOMAIN before \ {path} : after[q] = before[q]

\* the path's buffer is the same but for its ref_count
SameText(before, after, path) ==
    (path \in DOMAIN before /\ path \in DOMAIN after) =>
        /\ after[path].contents = before[path].contents
        /\ after[path].version = before[path].version

\* the requests that entered open_file and returned without raising
CompletedRequests == {"request_definition", "request_document_symbols"}

----------------------------------------------------------------------------
(* the nodes of a response, by their positions *)

\* the children a node carries, none when it has no `children` field
ChildrenOf(node) == IF "children" \in DOMAIN node THEN node.children ELSE << >>

\* the positions of the nodes of a forest: the index of a root, followed by
\* the indices that lead down to the node
RECURSIVE PositionsOf(_)
PositionsOf(forest) ==
    UNION { {<<i>>} \cup { <<i>> \o q : q \in PositionsOf(ChildrenOf(forest[i])) } :
            i \in 1..Len(forest) }

\* the node at a position
RECURSIVE NodeAt(_, _)
NodeAt(forest, position) ==
    IF Len(position) = 1 THEN forest[position[1]]
    ELSE NodeAt(ChildrenOf(forest[position[1]]), Tail(position))

\* p comes before q in depth-first preorder: p is an ancestor of q, or p turns
\* to an earlier sibling where the two part
Before(p, q) ==
    LET parting == { i \in 1..Len(p) : i > Len(q) \/ p[i] # q[i] }
    IN  IF parting = {} THEN Len(p) < Len(q)
        ELSE LET i == CHOOSE j \in parting : \A k \in parting : j <= k
             IN  i <= Len(q) /\ p[i] < q[i]

\* the entry has the node's fields and values, but no children
IsEntryOf(entry, node) ==
    /\ DOMAIN entry = DOMAIN node \ {"children"}
    /\ \A f \in DOMAIN entry : entry[f] = node[f]

\* C34: a list the server answers with is returned flat, one entry for every
\* node at any depth and no other, in depth-first preorder, whether or not a
\* node has a `children` field
C34_FlatInPreorder ==
    [][\A c \in Requesters, response \in DocumentSymbolResponses :
          ( /\ pc[c].op = "request_document_symbols"
            /\ DocumentSymbolsArrive(c, "list", response) ) =>
              /\ ret'.kind = "ok"
              /\ Len(ret'.val[1]) = Cardinality(PositionsOf(response))
              /\ \A p \in PositionsOf(response) :
                    IsEntryOf(ret'.val[1][1 + Cardinality({ q \in PositionsOf(response) : Before(q, p) })],
                              NodeAt(response, p))]_vars

\* the class whose method holds a variable without `children` has arrived:
\* three entries, the class, the method, the variable
C34_Witness ==
    /\ ret = Ret("request_document_symbols", "ok", << <<SymC, SymM, SymX>> >>)
    /\ "a.py" \in DOMAIN document_symbols_cache
    /\ document_symbols_cache["a.py"][2] = <<SymC, SymM, SymX>>


\* the fields a location is to carry
LocationFields == {"uri", "absolutePath", "relativePath", "range"}

\* C35: every symbol request_document_symbols returns, from the server or from
\* the cache, carries a location with uri, absolutePath, relativePath and
\* range, and the location's range is the range of a symbol that has one
C35_EverySymbolLocated ==
    (ret.op = "request_document_symbols" /\ ret.kind \in {"ok", "cached"}) =>
        \A i \in 1..Len(ret.val[1]) :
            LET s == ret.val[1][i]
            IN  /\ "location" \in DOMAIN s
                /\ LocationFields \subseteq DOMAIN s.location
                /\ "range" \in DOMAIN s => s.location.range = s.range


----------------------------------------------------------------------------
(* the episodes of a document *)

\* the index of the last didOpen for uri before message j, 0 when there is none
OpenedAt(uri, j) ==
    LET opens == { i \in 1..(j - 1) :
                     wire[i].method = "textDocument/didOpen" /\ wire[i].uri = uri }
    IN  IF opens = {} THEN 0 ELSE CHOOSE i \in opens : \A k \in opens : k <= i

\* the indices from i+1 to j at which a message of the method for uri stands
Between(method, uri, i, j) ==
    { k \in (i + 1)..j : wire[k].method = method /\ wire[k].uri = uri }

\* C40: every didOpen, the first of a document or one after its didClose,
\* carries version 0 and the contents on disk; every didChange stands in an
\* episode that a didOpen began and no didClose has ended, and carries the
\* number of edits since that didOpen; a buffer not edited since its last
\* didOpen is at version 0 with the contents on disk
C40_ReopenedFromDisk ==
    /\ \A j \in DOMAIN wire :
          /\ wire[j].method = "textDocument/didOpen" =>
                /\ wire[j].version = 0
                /\ wire[j].text = DiskContents(wire[j].uri)
          /\ wire[j].method = "textDocument/didChange" =>
                LET o == OpenedAt(wire[j].uri, j)
                IN  /\ o > 0
                    /\ Between("textDocument/didClose", wire[j].uri, o, j) = {}
                    /\ wire[j].version =
                          Cardinality(Between("textDocument/didChange", wire[j].uri, o, j))
    /\ \A uri \in DOMAIN open_file_buffers :
          LET o == OpenedAt(uri, Len(wire) + 1)
          IN  /\ o > 0
              /\ Between("textDocument/didChange", uri, o, Len(wire)) = {} =>
                    /\ open_file_buffers[uri].version = 0
                    /\ open_file_buffers[uri].contents = DiskContents(uri)

\* a.py was opened, edited, closed, opened again and edited again: the second
\* didOpen carries the contents on disk and the second didChange version 1
C40_Witness ==
    /\ Len(wire) = 5
    /\ wire[1].method = "textDocument/didOpen"
    /\ wire[2].method = "textDocument/didChange" /\ wire[2].version = 1
    /\ wire[3].method = "textDocument/didClose"
    /\ wire[4] = DidOpen("a.py", 0, DiskContents("a.py"))
    /\ wire[5].method = "textDocument/didChange" /\ wire[5].version = 1
    /\ open_file_buffers["a.py"].version = 1


----------------------------------------------------------------------------
(* the symbols that reference a symbol *)

\* the containing symbols of the references, in the order of the references,
\* without the references that have none; no file is edited, a buffer holds
\* what is on disk
RECURSIVE ContainersOf(_)
ContainersOf(references) ==
    IF references = << >> THEN << >>
    ELSE LET ref == Head(references)
             path == ref.relativePath
         IN  ContainingSymbolOfReference(LSPFileBuffer(path, DiskContents(path), 0, 1), ref)
                 \o ContainersOf(Tail(references))

\* the symbol's name stands at the position the query q asks about
StartsAtQuery(s, q) ==
    /\ s.location.relativePath = q.path
    /\ s.selectionRange.start.line = q.line
    /\ s.selectionRange.start.character = q.column

\* C32: the self entry is the containing symbol that starts at the position
\* asked about: with imports included, the result is the containing symbols of
\* the references in order, all of them with include_self, and without it all
\* but those that start at the position asked about
C32_SelfIsAtQueryPosition ==
    [][\A c \in Requesters, references \in ReferenceLists :
          ( /\ pc[c].op = "request_referencing_symbols"
            /\ pc[c].include_imports
            /\ ReferencesResponse(c, "result", references) ) =>
              ret'.val = SelectSeq(ContainersOf(references),
                                   LAMBDA s : pc[c].include_self \/ ~StartsAtQuery(s, pc[c]))]_vars

\* C33: without imports, when a reference's containing symbol starts at the
\* position asked about, the result holds no other symbol of its name and
\* kind, wherever in the list that reference stands
C33_ImportsDroppedWhereverListed ==
    [][\A c \in Requesters, references \in ReferenceLists :
          ( /\ pc[c].op = "request_referencing_symbols"
            /\ ~pc[c].include_imports
            /\ ReferencesResponse(c, "result", references) ) =>
              \A k \in DOMAIN ContainersOf(references) :
                  LET incoming == ContainersOf(references)[k]
                  IN  StartsAtQuery(incoming, pc[c]) =>
                        \A i \in DOMAIN ret'.val :
                            (ret'.val[i].name = incoming.name /\ ret'.val[i].kind = incoming.kind)
                                => StartsAtQuery(ret'.val[i], pc[c])]_vars

====
